---- MODULE Spec2Model ----
(***************************************************************************)
(* A model of the Deepgram realtime STT session of                         *)
(* src/server/src/providers/stt-deepgram.ts (class DeepgramSTTSession):    *)
(* the upstream WebSocket objects the session creates, its reconnect       *)
(* policy, the utterance accumulator and the transcript waiters.           *)
(*                                                                         *)
(* Text is a sequence of characters, so that the string operations of the  *)
(* code (+=, trim) are computed and not assumed.  Time is abstract: a      *)
(* timer that is armed may fire at any later step.                         *)
(***************************************************************************)
EXTENDS Integers, Sequences, FiniteSets, TLC

\* ------------------------------------------------------------- bounds
\* WebSocket objects one session may create in a run of Spec (1 by connect(),
\* the others by reconnect attempts).
MaxSockets == 7
\* waitForTranscript calls and accumulated final segments in a run of Spec
\* and of SpecOutage.
ConnWaiters == 1
ConnSegments == 1
\* Sockets in a run of SpecOutage.
OutageSockets == 3
\* Sockets, waitForTranscript calls and accumulated final segments in a run
\* of SpecText.
TextSockets == 1
MaxWaiters == 2
MaxSegments == 2
\* Sockets and sendAudio calls in a run of SpecAudio.
AudioSockets == 2
MaxAudio == 2
\* Media frames forwarded, transcriptions of the user and detections of the
\* closing phrase in a run of SpecCall.
MaxMedia == 2
MaxResponses == 2
MaxCompletions == 2
\* SSE connections accepted in a run of SpecSse.
MaxSse == 3
\* MCP sessions, calls and tool requests in a run of SpecTool.
MaxSessions == 2
MaxCalls == 2
MaxRequests == 3
\* Transports created in a run of SpecHttp.
MaxHttp == 2
\* createSubscriptionCheckout calls in a run of SpecStripe.
MaxCheckouts == 2
\* createSubscriptionCheckout calls in a run of SpecWebhook.
WebhookCheckouts == 1
\* The small numbers of minutes used that SpecBilling asks about.
MaxMinutesUsed == 4

\* -------------------------------------------------- program constants
maxReconnectAttempts == 5
reconnectDelayMs == 1000
\* The length of the WAV header that synthesize strips, and the sample rate
\* of a provider that was given none.
WavHeaderLength == 44
DefaultSampleRate == 24000
\* billing.ts: the plan before loadBillingConfig.
DefaultMonthlyPriceCents == 2000
DefaultMonthlyMinutes == 60

VARIABLES
    sock,                 \* sock[k]: state of the k-th WebSocket object created
    promise,              \* promise[k]: the promise of the doConnect() call that created socket k
    ws,                   \* this.ws: index into sock, 0 for null
    connected,            \* this.connected
    closed,               \* this.closed
    reconnectAttempts,    \* this.reconnectAttempts
    backoff,              \* pending backoff timers of attemptReconnect: records [attempt, delay]
    keepAliveInterval,    \* this.keepAliveInterval: an interval id, 0 for null
    intervals,            \* the setInterval timers that have not been cleared
    pendingTranscript,    \* this.pendingTranscript
    onTranscriptCallback, \* this.onTranscriptCallback: the waiter whose closure it holds, 0 for null
    onPartialCallback,    \* this.onPartialCallback is set
    lastPartial,          \* argument of the latest call of the partial callback
    waiters,              \* waiters[w]: state of the promise returned by the w-th waitForTranscript call
    delivered,            \* the latest call of a waiter's closure: the waiter and the transcript passed
    audioCalls,           \* number of sendAudio calls made
    audioSent,            \* the sendAudio calls whose buffer was passed to ws.send
    audioOffline,         \* history: the sendAudio calls made while isConnected() was false
    sendThrew,            \* a ws.send call was made on a socket that is not open
    msgTick,              \* history: where a specification follows it, it flips at every
                          \* message handled, so that handling a message that changes
                          \* nothing is still a step
    sinceArm,             \* history: final segments received since the armed waiter was armed
    sinceOpen,            \* history: reconnect sockets created since the last successful open
    outageWaiter          \* history: the waiter that was armed at the latest unexpected close

\* The variables of the STT session.
sttVars == <<sock, promise, ws, connected, closed, reconnectAttempts, backoff,
             keepAliveInterval, intervals, pendingTranscript, onTranscriptCallback,
             onPartialCallback, lastPartial, waiters, delivered, audioCalls, audioSent,
             audioOffline, sendThrew, msgTick, sinceArm, sinceOpen, outageWaiter>>

\* One outbound call of makePhoneCall (src/mcp-server/src/phone-call.ts).
VARIABLES
    callResult,           \* the promise makePhoneCall returns: "pending", "completed" or "rejected"
    httpServer,           \* httpServer: "starting", "listening" or "closed"
    wss,                  \* the media WebSocket server: "open" or "closed"
    placed,               \* twilioClient.calls.create: "none", "creating", "created" or "failed"
    watchdog,             \* the 6 minute timer of makePhoneCall is armed
    streamSid,            \* streamSid is not null
    twilioWs,             \* the carrier's media socket: "none", "OPEN" or "CLOSED"
    openaiWs,             \* VoiceHandler.openaiWs is not null
    openaiSock,           \* the recognizer socket the handler created: "none" or a socket state
    isComplete,           \* VoiceHandler.isComplete
    userResponses,        \* VoiceHandler.userResponses
    handlerResult,        \* the promise handleCall returns: "none", "pending", "resolved" or "rejected"
    callTimer,            \* the 5 minute timer of handleCall is armed
    completeTimers,       \* number of armed 2 s timers of completeCall
    mediaSent,            \* number of media frames forwarded to the recognizer
    frameStart,           \* history: a start frame was received
    frameStop,            \* history: a stop frame was received
    mediaOutside          \* history: a media frame received before start or after stop was forwarded

callVars == <<callResult, httpServer, wss, placed, watchdog, streamSid, twilioWs, openaiWs,
              openaiSock, isComplete, userResponses, handlerResult, callTimer,
              completeTimers, mediaSent, frameStart, frameStop, mediaOutside>>

\* The SSE endpoints of the MCP server (src/server/src/index-sse.ts).
VARIABLES
    activeTransports,     \* the Map activeTransports, in insertion order: [key, transport]
    sseCount,             \* number of SSE connections accepted so far
    sseOpen,              \* history: the connections whose response has not closed and
                          \* whose mcpServer.connect has not failed
    lastPost              \* the latest POST /messages: its sessionId, whether that named a
                          \* registered session, the transport that handled it (0: none)
                          \* and the status of the response

sseVars == <<activeTransports, sseCount, sseOpen, lastPost>>

\* The tool-call handler of createMcpServer (src/server/src/index-sse.ts)
\* and the CallManager it calls.
VARIABLES
    inflight,             \* the tool requests whose CallManager operation is running
    reqCount,             \* number of tool requests received so far
    callRegistry,         \* the ids of the calls in the registry of the CallManager
    callCount,            \* number of calls created so far
    lastReturn            \* the latest completion of the handler: the request, whether it
                          \* arrived while its call was busy, what the CallManager
                          \* operation did and what the handler returned

toolVars == <<inflight, reqCount, callRegistry, callCount, lastReturn>>

\* The provider factory (src/server/src/providers/index.ts).
VARIABLES
    env,                  \* process.env, the CALLME_ variables the factory reads
    config,               \* the ProviderConfig that loadProviderConfig returned
    errors,               \* what validateProviderConfig returned for config
    sttCreated            \* what createSTTProvider did for config

configVars == <<env, config, errors, sttCreated>>

\* The TTS provider (src/server/src/providers/tts-openai.ts).
VARIABLES
    ttsName,              \* OpenAITTSProvider._name
    ttsSampleRate,        \* OpenAITTSProvider._sampleRate
    ttsClient,            \* OpenAITTSProvider.client is not null
    ttsInit,              \* history: what the latest initialize call did: "none", "created"
                          \* or "failed" (it threw)
    ttsResponse,          \* the response of the speech API to the latest synthesize call,
                          \* with how it was built
    ttsResult             \* what the latest synthesize call did: "none", "returned" with
                          \* the audio, or "threw"

ttsVars == <<ttsName, ttsSampleRate, ttsClient, ttsInit, ttsResponse, ttsResult>>

\* Startup of the cloud server (main of src/server/src/index-sse.ts).
VARIABLES
    mainEnv,              \* process.env: PUBLIC_URL, PORT, CALLME_PORT, USER_PHONE_NUMBER
    mainPc,               \* where main is: "start", "load", "create", "listen", "serving", "exited"
    exitCode,             \* the code given to process.exit, -1 while the process runs
    port,                 \* main's port, 0 before it is computed
    callManager,          \* a CallManager has been created
    listening             \* httpServer.listen was called

mainVars == <<mainEnv, mainPc, exitCode, port, callManager, listening>>

\* The MCP endpoints of the HTTP variant of the server (main of
\* src/server/src/stripe.ts, from line 338).
VARIABLES
    transports,           \* the Map transports, in insertion order: [key, kind, n], the
                          \* transport being the n-th created, of kind "sse" or "http"
    httpOpen,             \* the transports whose SSE response or Streamable-HTTP session is open
    httpCount,            \* number of transports created so far
    httpDown,             \* shutdown has run
    lastReq               \* the latest request to /mcp or /messages: what it carried, what
                          \* its session id named in the registry, the transport it was
                          \* handed to, whether it created a session, and the status

httpVars == <<transports, httpOpen, httpCount, httpDown, lastReq>>

\* Subscriptions (src/server/src/stripe.ts, lines 1-197) over the user
\* records of database.js.
VARIABLES
    stripe,               \* stripe is not null
    stripeConfig,         \* config: NoStripeConfig for null, else webhookSecret and priceId
    users,                \* the user records: stripe_customer_id (0: none),
                          \* stripe_subscription_id ("": none), subscription_status, minutes_used
    customers,            \* the customers created at Stripe, in order: customer k was
                          \* created for user customers[k]
    checkouts,            \* the createSubscriptionCheckout calls, in order: the user, where
                          \* the call is and its customerId
    webhook               \* the latest handleWebhook call: the event, the secret the payload
                          \* was signed with, and whether the call returned or threw

stripeVars == <<stripe, stripeConfig, users, customers, checkouts, webhook>>

\* The subscription plan (src/server/src/billing.ts).
VARIABLES
    billingEnv,           \* process.env: MONTHLY_PRICE_CENTS and MONTHLY_MINUTES
    plan,                 \* plan: monthlyPriceCents and monthlyMinutes, JavaScript numbers
    planLoaded,           \* loadBillingConfig has run
    minutes               \* the latest question about a user's minutes: minutesUsed, the
                          \* plan's monthlyMinutes then, and what getMinutesRemaining and
                          \* hasMinutesRemaining returned

billingVars == <<billingEnv, plan, planLoaded, minutes>>

vars == <<sttVars, callVars, sseVars, toolVars, configVars, ttsVars, mainVars, httpVars, stripeVars, billingVars>>

\* What a step of the STT session leaves alone, and what a step of a call does.
notStt == <<callVars, sseVars, toolVars, configVars, ttsVars, mainVars, httpVars, stripeVars, billingVars>>
notCall == <<sttVars, sseVars, toolVars, configVars, ttsVars, mainVars, httpVars, stripeVars, billingVars>>
notSse == <<sttVars, callVars, toolVars, configVars, ttsVars, mainVars, httpVars, stripeVars, billingVars>>
notTool == <<sttVars, callVars, sseVars, configVars, ttsVars, mainVars, httpVars, stripeVars, billingVars>>
notConfig == <<sttVars, callVars, sseVars, toolVars, ttsVars, mainVars, httpVars, stripeVars, billingVars>>
notTts == <<sttVars, callVars, sseVars, toolVars, configVars, mainVars, httpVars, stripeVars, billingVars>>
notMain == <<sttVars, callVars, sseVars, toolVars, configVars, ttsVars, httpVars, stripeVars, billingVars>>
notHttp == <<sttVars, callVars, sseVars, toolVars, configVars, ttsVars, mainVars, stripeVars, billingVars>>
notStripe == <<sttVars, callVars, sseVars, toolVars, configVars, ttsVars, mainVars, httpVars, billingVars>>
notBilling == <<sttVars, callVars, sseVars, toolVars, configVars, ttsVars, mainVars, httpVars, stripeVars>>

connVars == <<sock, promise, ws, connected, closed, reconnectAttempts, backoff,
              keepAliveInterval, intervals, sinceOpen>>
textVars == <<pendingTranscript, onTranscriptCallback, lastPartial, waiters, delivered, sinceArm>>
audioVars == <<audioCalls, audioSent, audioOffline, sendThrew>>

\* ---------------------------------------------------------------- text
Word == {"a", "b"}
NoText == <<>>
\* The transcripts a Results event may carry: the empty string or one word.
Transcripts == {NoText} \cup {<<c>> : c \in Word}

RECURSIVE TrimStart(_)
TrimStart(s) == IF s # <<>> /\ Head(s) = " " THEN TrimStart(Tail(s)) ELSE s

RECURSIVE TrimEnd(_)
TrimEnd(s) ==
    IF s # <<>> /\ s[Len(s)] = " " THEN TrimEnd(SubSeq(s, 1, Len(s) - 1)) ELSE s

\* String.prototype.trim
Trim(s) == TrimEnd(TrimStart(s))

IsPrefix(s, t) == Len(s) <= Len(t) /\ SubSeq(t, 1, Len(s)) = s

\* ------------------------------------------------------------- sockets
\* CONNECTING, OPEN, CLOSED as in the ws library; CLOSING is split by who
\* started the close: LOCAL_CLOSING after ws.close() on an open socket (the
\* upstream may still deliver messages), REMOTE_CLOSING after the upstream's
\* close frame, ABORTED after ws.close() on a connecting socket (the library
\* then emits 'error' and 'close').
SockStates == {"CONNECTING", "OPEN", "LOCAL_CLOSING", "REMOTE_CLOSING", "ABORTED", "CLOSED"}

ReadyState(k) ==
    IF sock[k] \in {"LOCAL_CLOSING", "REMOTE_CLOSING", "ABORTED"} THEN "CLOSING" ELSE sock[k]

Sockets == 1..Len(sock)

SttInit ==
    /\ sock = <<>>
    /\ promise = <<>>
    /\ ws = 0
    /\ connected = FALSE
    /\ closed = FALSE
    /\ reconnectAttempts = 0
    /\ backoff = {}
    /\ keepAliveInterval = 0
    /\ intervals = {}
    /\ pendingTranscript = NoText
    /\ onTranscriptCallback = 0
    /\ onPartialCallback = FALSE
    /\ lastPartial = NoText
    /\ waiters = <<>>
    /\ delivered = [to |-> 0, text |-> NoText]
    /\ audioCalls = 0
    /\ audioSent = {}
    /\ audioOffline = {}
    /\ sendThrew = FALSE
    /\ msgTick = FALSE
    /\ sinceArm = NoText
    /\ sinceOpen = 0
    /\ outageWaiter = 0

\* ------------------------------------------------------------ promises
\* resolve/reject of a promise that is already settled does nothing.  The
\* promise of socket 1 is the one connect() returns; the promise of a later
\* socket is awaited by attemptReconnect(), which only logs the outcome, so
\* for those the model keeps "settled" for either outcome.
Settle(p, k, outcome) ==
    IF p[k] = "pending"
    THEN [p EXCEPT ![k] = IF k = 1 THEN outcome ELSE "settled"]
    ELSE p

\* ---------------------------------------------------------- connection
\* doConnect(): a new WebSocket object, kept in this.ws; its promise settles
\* in the open handler, the error handler or the 10 s timer.
DoConnect ==
    /\ sock' = Append(sock, "CONNECTING")
    /\ promise' = Append(promise, "pending")
    /\ ws' = Len(sock) + 1

\* connect(), called once by the owner of the session.
Connect ==
    /\ sock = <<>>
    /\ closed' = FALSE
    /\ reconnectAttempts' = 0
    /\ DoConnect
    /\ UNCHANGED <<connected, backoff, keepAliveInterval, intervals, sinceOpen>>
    /\ UNCHANGED <<textVars, onPartialCallback, audioVars, outageWaiter, msgTick>>

\* clearKeepAlive()
ClearKeepAlive ==
    /\ keepAliveInterval' = 0
    /\ intervals' = IF keepAliveInterval # 0 THEN intervals \ {keepAliveInterval} ELSE intervals

\* The delay of reconnect attempt n.
BackoffDelay(n) == reconnectDelayMs * 2 ^ (n - 1)

\* attemptReconnect() with > for >= in the test of the budget.
AttemptReconnectOffByOne ==
    IF closed \/ reconnectAttempts > maxReconnectAttempts
    THEN UNCHANGED <<reconnectAttempts, backoff>>
    ELSE /\ reconnectAttempts' = reconnectAttempts + 1
         /\ backoff' = backoff \cup {[attempt |-> reconnectAttempts + 1,
                                      delay |-> BackoffDelay(reconnectAttempts + 1)]}

\* attemptReconnect() up to its first await: the two early returns, the
\* increment of the counter, and the backoff timer it then waits for.
AttemptReconnect ==
    IF closed \/ reconnectAttempts >= maxReconnectAttempts
    THEN UNCHANGED <<reconnectAttempts, backoff>>
    ELSE /\ reconnectAttempts' = reconnectAttempts + 1
         /\ backoff' = backoff \cup {[attempt |-> reconnectAttempts + 1,
                                      delay |-> BackoffDelay(reconnectAttempts + 1)]}

\* A 'close' handler that fails the armed waiter.
OnCloseDropsWaiter ==
    /\ connected' = FALSE
    /\ ClearKeepAlive
    /\ IF ~closed THEN AttemptReconnect ELSE UNCHANGED <<reconnectAttempts, backoff>>
    /\ onTranscriptCallback' = 0
    /\ waiters' = IF onTranscriptCallback # 0
                  THEN [waiters EXCEPT ![onTranscriptCallback] = "rejected"]
                  ELSE waiters
    /\ UNCHANGED <<pendingTranscript, lastPartial, delivered, sinceArm>>

\* The 'close' handler of a socket.  It touches neither the accumulator nor
\* the waiter.
OnClose ==
    /\ connected' = FALSE
    /\ ClearKeepAlive
    /\ IF ~closed THEN AttemptReconnect ELSE UNCHANGED <<reconnectAttempts, backoff>>
    /\ UNCHANGED textVars

\* History: the waiter armed when the upstream closes on a session that has
\* not been closed.
NoteOutage ==
    outageWaiter' = IF ~closed /\ onTranscriptCallback # 0
                    THEN onTranscriptCallback ELSE outageWaiter

\* The 'open' handler without the reset of the attempt counter.
WsOpenNoReset(k) ==
    /\ sock[k] = "CONNECTING"
    /\ sock' = [sock EXCEPT ![k] = "OPEN"]
    /\ connected' = TRUE
    /\ keepAliveInterval' = k
    /\ intervals' = intervals \cup {k}
    /\ promise' = Settle(promise, k, "resolved")
    /\ sinceOpen' = 0
    /\ UNCHANGED <<ws, closed, backoff, reconnectAttempts>>
    /\ UNCHANGED <<textVars, onPartialCallback, audioVars, outageWaiter, msgTick>>

\* The 'open' event of socket k.
WsOpen(k) ==
    /\ sock[k] = "CONNECTING"
    /\ sock' = [sock EXCEPT ![k] = "OPEN"]
    /\ connected' = TRUE
    /\ reconnectAttempts' = 0
    /\ keepAliveInterval' = k
    /\ intervals' = intervals \cup {k}
    /\ promise' = Settle(promise, k, "resolved")
    /\ sinceOpen' = 0
    /\ UNCHANGED <<ws, closed, backoff>>
    /\ UNCHANGED <<textVars, onPartialCallback, audioVars, outageWaiter, msgTick>>

\* The upstream's close frame arrives on an open socket: readyState is
\* CLOSING until the 'close' event.
WsCloseFrame(k) ==
    /\ sock[k] = "OPEN"
    /\ sock' = [sock EXCEPT ![k] = "REMOTE_CLOSING"]
    /\ UNCHANGED <<promise, ws, connected, closed, reconnectAttempts, backoff,
                   keepAliveInterval, intervals, sinceOpen>>
    /\ UNCHANGED <<textVars, onPartialCallback, audioVars, outageWaiter, msgTick>>

\* The 'close' event of socket k without a preceding 'error' (a close
\* handshake that ends, or a dropped connection).
WsClose(k) ==
    /\ sock[k] \in {"OPEN", "LOCAL_CLOSING", "REMOTE_CLOSING"}
    /\ sock' = [sock EXCEPT ![k] = "CLOSED"]
    /\ OnClose
    /\ NoteOutage
    /\ UNCHANGED <<promise, ws, closed, sinceOpen>>
    /\ UNCHANGED <<onPartialCallback, audioVars, msgTick>>

\* The 'error' event of socket k, which the ws library follows by 'close':
\* a failed or aborted handshake, or an error on an established socket.
WsError(k) ==
    /\ sock[k] # "CLOSED"
    /\ sock' = [sock EXCEPT ![k] = "CLOSED"]
    /\ promise' = IF ~connected THEN Settle(promise, k, "rejected") ELSE promise
    /\ OnClose
    /\ NoteOutage
    /\ UNCHANGED <<ws, closed, sinceOpen>>
    /\ UNCHANGED <<onPartialCallback, audioVars, msgTick>>

\* The 10 s timer of the doConnect() call that created socket k.  Once the
\* promise is settled the timer's reject does nothing, so the timer is
\* followed only while the promise is pending.
ConnectTimeout(k) ==
    /\ promise[k] = "pending"
    /\ promise' = IF ~connected THEN Settle(promise, k, "rejected") ELSE promise
    /\ UNCHANGED <<sock, ws, connected, closed, reconnectAttempts, backoff,
                   keepAliveInterval, intervals, sinceOpen>>
    /\ UNCHANGED <<textVars, onPartialCallback, audioVars, outageWaiter, msgTick>>

\* attemptReconnect() without the check of closed after the delay.
BackoffElapsedNoClosedCheck(t) ==
    /\ t \in backoff
    /\ backoff' = backoff \ {t}
    /\ DoConnect
    /\ sinceOpen' = sinceOpen + 1
    /\ UNCHANGED <<connected, closed, reconnectAttempts, keepAliveInterval, intervals>>
    /\ UNCHANGED <<textVars, onPartialCallback, audioVars, outageWaiter, msgTick>>

\* attemptReconnect() after the backoff delay: the second check of closed,
\* then doConnect(); what follows the awaited doConnect() only logs.
BackoffElapsed(t) ==
    /\ t \in backoff
    /\ backoff' = backoff \ {t}
    /\ IF closed
       THEN UNCHANGED <<sock, promise, ws, sinceOpen>>
       ELSE DoConnect /\ sinceOpen' = sinceOpen + 1
    /\ UNCHANGED <<connected, closed, reconnectAttempts, keepAliveInterval, intervals>>
    /\ UNCHANGED <<textVars, onPartialCallback, audioVars, outageWaiter, msgTick>>

\* ws.close() by readyState: an open socket starts the close handshake, a
\* connecting one aborts its handshake, a closing or closed one is left alone.
AfterWsClose(st) ==
    CASE st = "OPEN" -> "LOCAL_CLOSING"
      [] st = "CONNECTING" -> "ABORTED"
      [] OTHER -> st

\* close() without clearKeepAlive().
CloseKeepsTimer ==
    /\ closed' = TRUE
    /\ UNCHANGED <<keepAliveInterval, intervals>>
    /\ IF ws # 0
       THEN sock' = [sock EXCEPT ![ws] = AfterWsClose(sock[ws])]
       ELSE sock' = sock
    /\ ws' = 0
    /\ connected' = FALSE
    /\ UNCHANGED <<promise, reconnectAttempts, backoff, sinceOpen>>
    /\ UNCHANGED <<textVars, onPartialCallback, audioVars, outageWaiter, msgTick>>

\* close()
Close ==
    /\ closed' = TRUE
    /\ ClearKeepAlive
    /\ IF ws # 0
       THEN sock' = [sock EXCEPT ![ws] = AfterWsClose(sock[ws])]
       ELSE sock' = sock
    /\ ws' = 0
    /\ connected' = FALSE
    /\ UNCHANGED <<promise, reconnectAttempts, backoff, sinceOpen>>
    /\ UNCHANGED <<textVars, onPartialCallback, audioVars, outageWaiter, msgTick>>

\* A tick of a keepalive interval: a KeepAlive message when this.ws is open.
KeepAliveTick(i) ==
    /\ i \in intervals
    /\ UNCHANGED sttVars

\* isConnected()
isConnected == connected

\* ------------------------------------------------- recognizer messages
\* The JSON messages of the recognizer, by the fields handleEvent reads: alt
\* says that channel.alternatives[0] is present.  "Other" stands for a type
\* handleEvent has no case for, and for a message that does not parse.
NoResult == [alt |-> FALSE, transcript |-> NoText, is_final |-> FALSE, speech_final |-> FALSE]

ResultsEvents ==
    {[type |-> "Results", alt |-> TRUE, transcript |-> t, is_final |-> f, speech_final |-> sf] :
        t \in Transcripts, f \in BOOLEAN, sf \in BOOLEAN}
    \cup {[type |-> "Results"] @@ NoResult}

OtherEvents ==
    {[type |-> ty] @@ NoResult : ty \in {"SpeechStarted", "UtteranceEnd", "Metadata", "Error", "Other"}}

Events == ResultsEvents \cup OtherEvents

\* this.onTranscriptCallback?.(text): the closure of waitForTranscript clears
\* its timer, clears the field and resolves its promise.
Deliver(text) ==
    IF onTranscriptCallback = 0
    THEN UNCHANGED <<onTranscriptCallback, waiters, delivered>>
    ELSE /\ onTranscriptCallback' = 0
         /\ waiters' = [waiters EXCEPT ![onTranscriptCallback] =
                            IF @ = "pending" THEN "resolved" ELSE @]
         /\ delivered' = [to |-> onTranscriptCallback, text |-> text]

\* this.onPartialCallback?.(text)
NotifyPartial(text) == lastPartial' = IF onPartialCallback THEN text ELSE lastPartial

\* handleTranscriptResult(event) with an interim result accumulated like a
\* final one.
HandleTranscriptResultInterimAccumulates(e) ==
    IF ~e.alt \/ e.transcript = NoText
    THEN UNCHANGED <<pendingTranscript, onTranscriptCallback, waiters, delivered, lastPartial>>
    ELSE LET acc == pendingTranscript \o e.transcript \o <<" ">> IN
         /\ NotifyPartial(Trim(acc))
         /\ IF e.is_final /\ e.speech_final
            THEN Deliver(Trim(acc)) /\ pendingTranscript' = NoText
            ELSE pendingTranscript' = acc /\ UNCHANGED <<onTranscriptCallback, waiters, delivered>>

\* handleTranscriptResult(event)
HandleTranscriptResult(e) ==
    IF ~e.alt \/ e.transcript = NoText
    THEN UNCHANGED <<pendingTranscript, onTranscriptCallback, waiters, delivered, lastPartial>>
    ELSE IF e.is_final
    THEN LET acc == pendingTranscript \o e.transcript \o <<" ">> IN
         /\ NotifyPartial(Trim(acc))
         /\ IF e.speech_final
            THEN Deliver(Trim(acc)) /\ pendingTranscript' = NoText
            ELSE pendingTranscript' = acc /\ UNCHANGED <<onTranscriptCallback, waiters, delivered>>
    ELSE /\ NotifyPartial(Trim(pendingTranscript \o e.transcript))
         /\ UNCHANGED <<pendingTranscript, onTranscriptCallback, waiters, delivered>>

\* handleEvent(event)
HandleEvent(e) ==
    CASE e.type = "Results" -> HandleTranscriptResult(e)
      [] e.type = "SpeechStarted" ->
            /\ pendingTranscript' = NoText
            /\ UNCHANGED <<onTranscriptCallback, waiters, delivered, lastPartial>>
      [] e.type = "UtteranceEnd" ->
            IF Trim(pendingTranscript) # NoText
            THEN /\ Deliver(Trim(pendingTranscript))
                 /\ pendingTranscript' = NoText
                 /\ UNCHANGED lastPartial
            ELSE UNCHANGED <<pendingTranscript, onTranscriptCallback, waiters, delivered, lastPartial>>
      [] OTHER -> UNCHANGED <<pendingTranscript, onTranscriptCallback, waiters, delivered, lastPartial>>

\* The event appends a segment to the accumulator (before any flush).
Accumulates(e) == e.type = "Results" /\ e.alt /\ e.transcript # NoText /\ e.is_final

\* The 'message' event of socket k.  A socket delivers messages while it is
\* open, and after a local ws.close() until the upstream answers.
WsMessage(k, e) ==
    /\ sock[k] \in {"OPEN", "LOCAL_CLOSING"}
    /\ HandleEvent(e)
    /\ sinceArm' = IF Accumulates(e) /\ onTranscriptCallback # 0
                   THEN sinceArm \o e.transcript \o <<" ">>
                   ELSE sinceArm
    /\ UNCHANGED <<connVars, onPartialCallback, audioVars, outageWaiter>>

\* waitForTranscript(timeoutMs): a new promise and timer; the field is
\* overwritten with the closure of this call.
WaitForTranscript ==
    /\ waiters' = Append(waiters, "pending")
    /\ onTranscriptCallback' = Len(waiters) + 1
    /\ sinceArm' = NoText
    /\ UNCHANGED <<pendingTranscript, lastPartial, delivered>>
    /\ UNCHANGED <<connVars, onPartialCallback, audioVars, outageWaiter, msgTick>>

\* The timer of the w-th waitForTranscript call fires.  The timer is armed
\* exactly while the promise is pending: the closure clears it on resolve.
TranscriptTimeout(w) ==
    /\ w \in 1..Len(waiters)
    /\ waiters[w] = "pending"
    /\ onTranscriptCallback' = 0
    /\ waiters' = [waiters EXCEPT ![w] = "rejected"]
    /\ UNCHANGED <<pendingTranscript, lastPartial, delivered, sinceArm>>
    /\ UNCHANGED <<connVars, onPartialCallback, audioVars, outageWaiter, msgTick>>

\* onPartial(callback)
OnPartial ==
    /\ onPartialCallback' = TRUE
    /\ UNCHANGED <<connVars, textVars, audioVars, outageWaiter, msgTick>>

\* ---------------------------------------------------------------- audio
\* ws.send(data) of the ws library on this.ws: it throws on a missing or
\* connecting socket, and passes the data on when the socket is open.
WsSend(n) ==
    /\ sendThrew' = (sendThrew \/ ws = 0 \/ (ws # 0 /\ ReadyState(ws) = "CONNECTING"))
    /\ audioSent' = IF ws # 0 /\ ReadyState(ws) = "OPEN" THEN audioSent \cup {n} ELSE audioSent

\* sendAudio without its guard.
SendAudioBodyNoGuard(n) == WsSend(n)

\* The body of sendAudio(muLawData), n being the number of the call.
SendAudioBody(n) ==
    IF ~connected \/ ws = 0 \/ ReadyState(ws) # "OPEN"
    THEN UNCHANGED <<audioSent, sendThrew>>
    ELSE WsSend(n)

\* A call of sendAudio.
SendAudio ==
    /\ audioCalls' = audioCalls + 1
    /\ audioOffline' = IF ~isConnected THEN audioOffline \cup {audioCalls + 1} ELSE audioOffline
    /\ SendAudioBody(audioCalls + 1)
    /\ UNCHANGED <<connVars, textVars, onPartialCallback, outageWaiter, msgTick>>

\* ------------------------------------------------------ one outbound call
\* The transcripts the recognizer reports for the user.
Response == {"x", "y"}

CallInit ==
    /\ callResult = "pending"
    /\ httpServer = "starting"
    /\ wss = "open"
    /\ placed = "none"
    /\ watchdog = TRUE
    /\ streamSid = FALSE
    /\ twilioWs = "none"
    /\ openaiWs = FALSE
    /\ openaiSock = "none"
    /\ isComplete = FALSE
    /\ userResponses = <<>>
    /\ handlerResult = "none"
    /\ callTimer = FALSE
    /\ completeTimers = 0
    /\ mediaSent = 0
    /\ frameStart = FALSE
    /\ frameStop = FALSE
    /\ mediaOutside = FALSE

\* cleanup() of makePhoneCall
CallCleanup ==
    /\ wss' = "closed"
    /\ httpServer' = "closed"

\* resolve/reject of the promise of makePhoneCall.
SettleCall(outcome) == callResult' = IF callResult = "pending" THEN outcome ELSE callResult

\* VoiceHandler.cleanup()
HandlerCleanup ==
    /\ openaiSock' = IF openaiWs THEN AfterWsClose(openaiSock) ELSE openaiSock
    /\ openaiWs' = FALSE

\* resolve/reject of the promise of handleCall, with the then/catch that
\* makePhoneCall chained to it: cleanup() and the outcome of the call.
SettleHandler(outcome) ==
    IF handlerResult = "pending"
    THEN /\ handlerResult' = outcome
         /\ CallCleanup
         /\ SettleCall(IF outcome = "resolved" THEN "completed" ELSE "rejected")
    ELSE UNCHANGED <<handlerResult, wss, httpServer, callResult>>

\* The callback of httpServer.listen: the call is placed.
HttpListening ==
    /\ httpServer = "starting"
    /\ httpServer' = "listening"
    /\ placed' = "creating"
    /\ UNCHANGED <<callResult, wss, watchdog, streamSid, twilioWs, openaiWs, openaiSock,
                   isComplete, userResponses, handlerResult, callTimer, completeTimers,
                   mediaSent, frameStart, frameStop, mediaOutside>>

\* twilioClient.calls.create resolves.
CallCreated ==
    /\ placed = "creating"
    /\ placed' = "created"
    /\ UNCHANGED <<callResult, httpServer, wss, watchdog, streamSid, twilioWs, openaiWs,
                   openaiSock, isComplete, userResponses, handlerResult, callTimer,
                   completeTimers, mediaSent, frameStart, frameStop, mediaOutside>>

\* twilioClient.calls.create rejects.
CallCreateFailed ==
    /\ placed = "creating"
    /\ placed' = "failed"
    /\ CallCleanup
    /\ SettleCall("rejected")
    /\ UNCHANGED <<watchdog, streamSid, twilioWs, openaiWs, openaiSock, isComplete,
                   userResponses, handlerResult, callTimer, completeTimers, mediaSent,
                   frameStart, frameStop, mediaOutside>>

\* The 6 minute timer of makePhoneCall: cleanup() and nothing else.  The server
\* listens within the first turn of the event loop, before any timer.
Watchdog ==
    /\ watchdog /\ httpServer # "starting"
    /\ watchdog' = FALSE
    /\ CallCleanup
    /\ UNCHANGED <<callResult, placed, streamSid, twilioWs, openaiWs, openaiSock,
                   isComplete, userResponses, handlerResult, callTimer, completeTimers,
                   mediaSent, frameStart, frameStop, mediaOutside>>

\* The carrier opens the media socket of the call that was placed: a
\* VoiceHandler is created and handleCall runs, with initializeOpenAI.
WssConnection ==
    /\ twilioWs = "none"
    /\ placed = "created" /\ httpServer = "listening" /\ wss = "open"
    /\ twilioWs' = "OPEN"
    /\ openaiWs' = TRUE
    /\ openaiSock' = "CONNECTING"
    /\ handlerResult' = "pending"
    /\ callTimer' = TRUE
    /\ UNCHANGED <<callResult, httpServer, wss, placed, watchdog, streamSid, isComplete,
                   userResponses, completeTimers, mediaSent, frameStart, frameStop,
                   mediaOutside>>

\* The frames of the carrier's media stream, by msg.event.
Frames == {"connected", "start", "media", "stop"}

\* handleTwilioMessage(msg) forwards the audio of msg.
Forwards(f) == f = "media" /\ openaiWs /\ openaiSock = "OPEN"

\* A 'message' event of the media socket: the handler of the connection
\* (streamSid) and the handler of handleCall (handleTwilioMessage).
TwilioFrame(f) ==
    /\ twilioWs = "OPEN"
    /\ streamSid' = (streamSid \/ f = "start")
    /\ frameStart' = (frameStart \/ f = "start")
    /\ frameStop' = (frameStop \/ f = "stop")
    /\ mediaSent' = IF Forwards(f) THEN mediaSent + 1 ELSE mediaSent
    /\ mediaOutside' = (mediaOutside \/ (Forwards(f) /\ (~frameStart \/ frameStop)))
    /\ UNCHANGED <<callResult, httpServer, wss, placed, watchdog, twilioWs, openaiWs,
                   openaiSock, isComplete, userResponses, handlerResult, callTimer,
                   completeTimers>>

\* The 'close' event of the media socket.
TwilioClose ==
    /\ twilioWs = "OPEN"
    /\ twilioWs' = "CLOSED"
    /\ HandlerCleanup
    /\ IF ~isComplete
       THEN SettleHandler("rejected")
       ELSE UNCHANGED <<handlerResult, wss, httpServer, callResult>>
    /\ UNCHANGED <<placed, watchdog, streamSid, isComplete, userResponses, callTimer,
                   completeTimers, mediaSent, frameStart, frameStop, mediaOutside>>

\* The 'error' event of the media socket, which the ws library follows by
\* 'close' (whose cleanup and reject then do nothing more).
TwilioError ==
    /\ twilioWs = "OPEN"
    /\ twilioWs' = "CLOSED"
    /\ HandlerCleanup
    /\ SettleHandler("rejected")
    /\ UNCHANGED <<placed, watchdog, streamSid, isComplete, userResponses, callTimer,
                   completeTimers, mediaSent, frameStart, frameStop, mediaOutside>>

\* The 5 minute timer of handleCall.
CallTimeout ==
    /\ callTimer
    /\ callTimer' = FALSE
    /\ IF ~isComplete
       THEN HandlerCleanup /\ SettleHandler("rejected")
       ELSE UNCHANGED <<openaiWs, openaiSock, handlerResult, wss, httpServer, callResult>>
    /\ UNCHANGED <<placed, watchdog, streamSid, twilioWs, isComplete, userResponses,
                   completeTimers, mediaSent, frameStart, frameStop, mediaOutside>>

\* The 'open' event of the recognizer socket: sendSessionUpdate().
OpenAIOpen ==
    /\ openaiSock = "CONNECTING"
    /\ openaiSock' = "OPEN"
    /\ UNCHANGED <<callResult, httpServer, wss, placed, watchdog, streamSid, twilioWs,
                   openaiWs, isComplete, userResponses, handlerResult, callTimer,
                   completeTimers, mediaSent, frameStart, frameStop, mediaOutside>>

\* The events of the recognizer, by what handleOpenAIEvent does with them:
\* a completed transcription of the user, a response.done whose text does or
\* does not hold one of the closing phrases, an 'error' event, anything else.
OpenAIEvents ==
    {[type |-> "transcription", transcript |-> r] : r \in Response}
    \cup {[type |-> ty, transcript |-> ""] : ty \in {"done_closing", "done", "error", "other"}}

\* completeCall(resolve) up to its timer.
CompleteCall ==
    /\ isComplete' = TRUE
    /\ completeTimers' = completeTimers + 1

\* handleOpenAIEvent(event, resolve, reject), from the 'message' handler of
\* the recognizer socket.
OpenAIEvent(e) ==
    /\ openaiSock \in {"OPEN", "LOCAL_CLOSING"}
    /\ userResponses' = IF e.type = "transcription"
                        THEN Append(userResponses, e.transcript) ELSE userResponses
    /\ IF e.type = "done_closing" THEN CompleteCall ELSE UNCHANGED <<isComplete, completeTimers>>
    /\ IF e.type = "error"
       THEN SettleHandler("rejected")
       ELSE UNCHANGED <<handlerResult, wss, httpServer, callResult>>
    /\ UNCHANGED <<placed, watchdog, streamSid, twilioWs, openaiWs, openaiSock, callTimer,
                   mediaSent, frameStart, frameStop, mediaOutside>>

\* The 'error' event of the recognizer socket (a failed or aborted handshake,
\* or an error on the open socket); the library then closes the socket.
OpenAIError ==
    /\ openaiSock \in {"CONNECTING", "OPEN", "LOCAL_CLOSING", "ABORTED"}
    /\ openaiSock' = "CLOSED"
    /\ SettleHandler("rejected")
    /\ UNCHANGED <<placed, watchdog, streamSid, twilioWs, openaiWs, isComplete,
                   userResponses, callTimer, completeTimers, mediaSent, frameStart,
                   frameStop, mediaOutside>>

\* The recognizer socket closes without an error.  handleCall has no handler
\* for it.
OpenAIClose ==
    /\ openaiSock \in {"OPEN", "LOCAL_CLOSING"}
    /\ openaiSock' = "CLOSED"
    /\ UNCHANGED <<callResult, httpServer, wss, placed, watchdog, streamSid, twilioWs,
                   openaiWs, isComplete, userResponses, handlerResult, callTimer,
                   completeTimers, mediaSent, frameStart, frameStop, mediaOutside>>

\* A 2 s timer of completeCall: cleanup() and resolve.
CompleteTimer ==
    /\ completeTimers > 0
    /\ completeTimers' = completeTimers - 1
    /\ HandlerCleanup
    /\ SettleHandler("resolved")
    /\ UNCHANGED <<placed, watchdog, streamSid, twilioWs, isComplete, userResponses,
                   callTimer, mediaSent, frameStart, frameStop, mediaOutside>>

\* ------------------------------------------------------- SSE endpoints
\* A session id is missing, or it is the key under which main registered the
\* transport of connection c (a fresh UUID), or the id that the transport of
\* connection c announced to its client (the transport's own UUID).
NoSession == <<"none", 0>>
RegistryKey(c) == <<"key", c>>
AnnouncedId(c) == <<"sid", c>>

SseInit ==
    /\ activeTransports = <<>>
    /\ sseCount = 0
    /\ sseOpen = {}
    /\ lastPost = [sessionId |-> NoSession, registered |-> FALSE, handledBy |-> 0, status |-> 0]

\* Map.delete(key)
MapDelete(m, key) == SelectSeq(m, LAMBDA en : en.key # key)

\* Map.get(key): the transport, 0 for undefined.
MapGet(m, key) ==
    IF \E i \in 1..Len(m) : m[i].key = key
    THEN m[CHOOSE i \in 1..Len(m) : m[i].key = key].transport
    ELSE 0

\* GET /sse: a transport is created and registered under a new UUID, and
\* mcpServer.connect(transport) announces the transport's session id.
SseConnect ==
    /\ sseCount' = sseCount + 1
    /\ activeTransports' = Append(activeTransports,
                                  [key |-> RegistryKey(sseCount + 1), transport |-> sseCount + 1])
    /\ sseOpen' = sseOpen \cup {sseCount + 1}
    /\ UNCHANGED lastPost

\* A close handler that leaves the registry alone.
SseCloseKeepsTransport(c) ==
    /\ activeTransports' = activeTransports
    /\ sseOpen' = sseOpen \ {c}
    /\ UNCHANGED <<sseCount, lastPost>>

\* The 'close' event of the response of connection c (also the catch of a
\* failed mcpServer.connect).
SseClose(c) ==
    /\ activeTransports' = MapDelete(activeTransports, RegistryKey(c))
    /\ sseOpen' = sseOpen \ {c}
    /\ UNCHANGED <<sseCount, lastPost>>

\* The transport that POST /messages?sessionId=sid is handed to, 0 for none.
PostTransport(sid) ==
    LET found == IF sid # NoSession THEN MapGet(activeTransports, sid) ELSE 0 IN
    IF found # 0 THEN found
    ELSE IF activeTransports # <<>> THEN activeTransports[Len(activeTransports)].transport
    ELSE 0

\* POST /messages with the session id sid.
PostMessages(sid) ==
    /\ lastPost' = [sessionId |-> sid,
                    registered |-> (sid # NoSession /\ MapGet(activeTransports, sid) # 0),
                    handledBy |-> PostTransport(sid),
                    status |-> IF PostTransport(sid) # 0 THEN 202 ELSE 503]
    /\ UNCHANGED <<activeTransports, sseCount, sseOpen>>

\* The session ids a client may send.
SessionIds ==
    {NoSession} \cup {RegistryKey(c) : c \in 1..sseCount} \cup {AnnouncedId(c) : c \in 1..sseCount}

\* ---------------------------------------------------- tool-call handler
ToolNames == {"initiate_call", "continue_call", "speak_to_user", "end_call"}

\* What the body of the try block comes to: the operation returned, it threw
\* an Error with a message, or it threw a value that is no Error.
Ok == [kind |-> "ok", message |-> <<>>]
Err(m) == [kind |-> "error", message |-> m]
Thrown == [kind |-> "thrown", message |-> <<>>]

\* The errors an operation that has started may end with.
TurnErrors == {<<"TTSFailed">>, <<"TranscriptTimeout">>}
Outcomes == {Ok, Thrown} \cup {Err(m) : m \in TurnErrors}

NoRequest == [id |-> 0, session |-> 0, name |-> "", call |-> 0]

ToolInit ==
    /\ inflight = {}
    /\ reqCount = 0
    /\ callRegistry = {}
    /\ callCount = 0
    /\ lastReturn = [request |-> NoRequest, busy |-> FALSE, outcome |-> Ok,
                     result |-> [threw |-> FALSE, isError |-> FALSE, text |-> <<>>]]

\* The text of the result of a successful operation.
SuccessText(name) ==
    CASE name = "initiate_call" -> <<"Call initiated successfully.">>
      [] name = "continue_call" -> <<"User's response:">>
      [] name = "speak_to_user" -> <<"Message spoken:">>
      [] OTHER -> <<"Call ended.">>

\* The handler without its try/catch.
ToolResultNoCatch(name, outcome) ==
    IF outcome.kind = "ok"
    THEN [threw |-> FALSE, isError |-> FALSE, text |-> SuccessText(name)]
    ELSE [threw |-> TRUE, isError |-> FALSE, text |-> <<>>]

\* What the handler returns: the result of the branch of the tool, or the
\* result its catch builds from what was thrown.
ToolResult(name, outcome) ==
    IF outcome.kind = "ok"
    THEN [threw |-> FALSE, isError |-> FALSE, text |-> SuccessText(name)]
    ELSE [threw |-> FALSE, isError |-> TRUE,
          text |-> <<"Error: ">> \o (IF outcome.kind = "error"
                                     THEN outcome.message ELSE <<"Unknown error">>)]

\* An operation on call c is in flight: the turn lock of c is held.
Busy(c) == \E r \in inflight : r.call = c

\* The preconditions without the turn lock.
CallManagerStartNoLock(c) == IF c \notin callRegistry THEN "CallNotFound" ELSE "run"

\* The preconditions of continue, speakOnly and end on call c: the error the
\* operation fails with, or "run".
CallManagerStart(c) ==
    IF c \notin callRegistry THEN "CallNotFound"
    ELSE IF Busy(c) THEN "CallBusy"
    ELSE "run"

\* The handler returns for request rq.
Return(rq, busy, outcome) ==
    lastReturn' = [request |-> rq, busy |-> busy, outcome |-> outcome,
                   result |-> ToolResult(rq.name, outcome)]

\* A tools/call request of session s: tool name, its call_id c, and whether
\* params.arguments is present.  The handler runs up to its await, or to its
\* return when nothing is awaited.
ToolCall(s, name, c, args) ==
    LET rq == [id |-> reqCount + 1, session |-> s, name |-> name,
               call |-> IF name = "initiate_call" THEN callCount + 1 ELSE c] IN
    /\ reqCount' = reqCount + 1
    /\ IF name \notin ToolNames
       THEN /\ Return(rq, FALSE, Err(<<"Unknown tool: ", name>>))
            /\ UNCHANGED <<inflight, callRegistry, callCount>>
       ELSE IF ~args
       THEN /\ Return(rq, FALSE, Err(<<"TypeError">>))
            /\ UNCHANGED <<inflight, callRegistry, callCount>>
       ELSE IF name = "initiate_call"
       THEN /\ inflight' = inflight \cup {rq}
            /\ callRegistry' = callRegistry \cup {callCount + 1}
            /\ callCount' = callCount + 1
            /\ UNCHANGED lastReturn
       ELSE IF CallManagerStart(c) = "run"
       THEN /\ inflight' = inflight \cup {rq}
            /\ UNCHANGED <<callRegistry, callCount, lastReturn>>
       ELSE /\ Return(rq, Busy(c), Err(<<CallManagerStart(c)>>))
            /\ UNCHANGED <<inflight, callRegistry, callCount>>

\* The operation of request rq ends and the handler resumes after its await.
\* A call leaves the registry when end succeeds or initiate fails.
OpSettles(rq, outcome) ==
    /\ rq \in inflight
    /\ inflight' = inflight \ {rq}
    /\ callRegistry' =
          IF \/ rq.name = "end_call" /\ outcome.kind = "ok"
             \/ rq.name = "initiate_call" /\ outcome.kind # "ok"
          THEN callRegistry \ {rq.call} ELSE callRegistry
    /\ Return(rq, FALSE, outcome)
    /\ UNCHANGED <<reqCount, callCount>>

\* ------------------------------------------------------ provider factory
\* A value of process.env or of an optional field: undefined or a string.
Undefined == "<undefined>"

\* JavaScript truthiness of such a value, and a || b.
Truthy(v) == v # Undefined /\ v # ""
Or(a, b) == IF Truthy(a) THEN a ELSE b

\* The environments the factory is run in.
Envs ==
    [PHONE_PROVIDER : {Undefined, "twilio"},
     PHONE_ACCOUNT_SID : {Undefined, "", "sid"},
     PHONE_AUTH_TOKEN : {Undefined, "", "token"},
     PHONE_NUMBER : {Undefined, "", "+15550100"},
     OPENAI_API_KEY : {Undefined, "", "sk-openai"},
     TTS_API_KEY : {Undefined, "", "sk-tts"},
     TTS_BASE_URL : {Undefined, "https://api.lemonfox.ai/v1"},
     TTS_SAMPLE_RATE : {Undefined, "8000"},
     STT_PROVIDER : {Undefined, "", "openai", "deepgram"},
     STT_API_KEY : {Undefined, "", "sk-stt"},
     STT_MODEL : {Undefined, "", "custom-model"}]

NoEnv ==
    [PHONE_PROVIDER |-> Undefined, PHONE_ACCOUNT_SID |-> Undefined,
     PHONE_AUTH_TOKEN |-> Undefined, PHONE_NUMBER |-> Undefined,
     OPENAI_API_KEY |-> Undefined, TTS_API_KEY |-> Undefined, TTS_BASE_URL |-> Undefined,
     TTS_SAMPLE_RATE |-> Undefined, STT_PROVIDER |-> Undefined,
     STT_API_KEY |-> Undefined, STT_MODEL |-> Undefined]

NoConfig == [loaded |-> FALSE]
NotValidated == [validated |-> FALSE]
NotCreated == [state |-> "none"]

\* The factory before it has run, in the environment en.
ConfigInit(en) ==
    /\ env = en
    /\ config = NoConfig
    /\ errors = NotValidated
    /\ sttCreated = NotCreated

\* loadProviderConfig() with every default model that of openai.
LoadProviderConfigOneDefault(en) ==
    [loaded |-> TRUE,
     phoneProvider |-> Or(en.PHONE_PROVIDER, "telnyx"),
     phoneAccountSid |-> Or(en.PHONE_ACCOUNT_SID, ""),
     phoneAuthToken |-> Or(en.PHONE_AUTH_TOKEN, ""),
     phoneNumber |-> Or(en.PHONE_NUMBER, ""),
     openaiApiKey |-> Or(en.OPENAI_API_KEY, ""),
     ttsApiKey |-> en.TTS_API_KEY,
     ttsBaseUrl |-> en.TTS_BASE_URL,
     sttProvider |-> Or(en.STT_PROVIDER, IF Truthy(en.STT_API_KEY) THEN "deepgram" ELSE "openai"),
     sttApiKey |-> en.STT_API_KEY,
     sttModel |-> Or(en.STT_MODEL, "gpt-4o-transcribe")]

\* loadProviderConfig(), the fields that validation and the TTS and STT
\* factories read.
LoadProviderConfig(en) ==
    LET sttProvider ==
            Or(en.STT_PROVIDER, IF Truthy(en.STT_API_KEY) THEN "deepgram" ELSE "openai")
        defaultSttModel == IF sttProvider = "deepgram" THEN "nova-2" ELSE "gpt-4o-transcribe"
    IN  [loaded |-> TRUE,
         phoneProvider |-> Or(en.PHONE_PROVIDER, "telnyx"),
         phoneAccountSid |-> Or(en.PHONE_ACCOUNT_SID, ""),
         phoneAuthToken |-> Or(en.PHONE_AUTH_TOKEN, ""),
         phoneNumber |-> Or(en.PHONE_NUMBER, ""),
         openaiApiKey |-> Or(en.OPENAI_API_KEY, ""),
         ttsApiKey |-> en.TTS_API_KEY,
         ttsBaseUrl |-> en.TTS_BASE_URL,
         sttProvider |-> sttProvider,
         sttApiKey |-> en.STT_API_KEY,
         sttModel |-> Or(en.STT_MODEL, defaultSttModel)]

\* errors.push(message) when the test holds.  A message is the pair of what
\* is missing and the explanation in parentheses.
PushIf(test, errs, message) == IF test THEN Append(errs, message) ELSE errs

\* validateProviderConfig(config) with the STT key looked for in sttApiKey
\* alone.
ValidateProviderConfigSttOnly(cfg) ==
    LET accountSid == IF cfg.phoneProvider = "twilio"
                      THEN "Twilio Account SID" ELSE "Telnyx Connection ID"
        authToken == IF cfg.phoneProvider = "twilio"
                     THEN "Twilio Auth Token" ELSE "Telnyx API Key"
        e1 == PushIf(~Truthy(cfg.phoneAccountSid), <<>>, <<"CALLME_PHONE_ACCOUNT_SID", accountSid>>)
        e2 == PushIf(~Truthy(cfg.phoneAuthToken), e1, <<"CALLME_PHONE_AUTH_TOKEN", authToken>>)
        e3 == PushIf(~Truthy(cfg.phoneNumber), e2, <<"CALLME_PHONE_NUMBER", "">>)
        e4 == PushIf(~Truthy(Or(cfg.ttsApiKey, cfg.openaiApiKey)), e3,
                     <<"TTS API key", "set CALLME_TTS_API_KEY or CALLME_OPENAI_API_KEY">>)
    IN  PushIf(~Truthy(cfg.sttApiKey), e4,
               <<"STT API key", "set CALLME_STT_API_KEY or CALLME_OPENAI_API_KEY">>)

\* validateProviderConfig(config)
ValidateProviderConfig(cfg) ==
    LET accountSid == IF cfg.phoneProvider = "twilio"
                      THEN "Twilio Account SID" ELSE "Telnyx Connection ID"
        authToken == IF cfg.phoneProvider = "twilio"
                     THEN "Twilio Auth Token" ELSE "Telnyx API Key"
        e1 == PushIf(~Truthy(cfg.phoneAccountSid), <<>>, <<"CALLME_PHONE_ACCOUNT_SID", accountSid>>)
        e2 == PushIf(~Truthy(cfg.phoneAuthToken), e1, <<"CALLME_PHONE_AUTH_TOKEN", authToken>>)
        e3 == PushIf(~Truthy(cfg.phoneNumber), e2, <<"CALLME_PHONE_NUMBER", "">>)
        e4 == PushIf(~Truthy(Or(cfg.ttsApiKey, cfg.openaiApiKey)), e3,
                     <<"TTS API key", "set CALLME_TTS_API_KEY or CALLME_OPENAI_API_KEY">>)
    IN  PushIf(~Truthy(Or(cfg.sttApiKey, cfg.openaiApiKey)), e4,
               <<"STT API key", "set CALLME_STT_API_KEY or CALLME_OPENAI_API_KEY">>)

\* DeepgramSTTProvider.initialize(config): it throws without an API key.
DeepgramInitialize(apiKey, model) ==
    IF ~Truthy(apiKey)
    THEN [state |-> "failed", name |-> "deepgram", apiKey |-> apiKey, model |-> "nova-2"]
    ELSE [state |-> "created", name |-> "deepgram", apiKey |-> apiKey,
          model |-> Or(model, "nova-2")]

\* OpenAIRealtimeSTTProvider.initialize(config): the provider keeps what it
\* is given.
OpenAIInitialize(apiKey, model) ==
    [state |-> "created", name |-> "openai", apiKey |-> apiKey, model |-> model]

\* createSTTProvider(config) passing the STT key alone, without the
\* fallback to the OpenAI key.
CreateSTTProviderNoFallback(cfg) ==
    IF cfg.sttProvider = "deepgram"
    THEN DeepgramInitialize(cfg.sttApiKey, cfg.sttModel)
    ELSE OpenAIInitialize(cfg.sttApiKey, cfg.sttModel)

\* createSTTProvider(config)
CreateSTTProvider(cfg) ==
    IF cfg.sttProvider = "deepgram"
    THEN DeepgramInitialize(Or(cfg.sttApiKey, cfg.openaiApiKey), cfg.sttModel)
    ELSE OpenAIInitialize(Or(cfg.sttApiKey, cfg.openaiApiKey), cfg.sttModel)

\* The server loads its provider configuration.
LoadConfig ==
    /\ config = NoConfig
    /\ config' = LoadProviderConfig(env)
    /\ UNCHANGED <<env, errors, sttCreated>>

\* The server validates the configuration it loaded.
ValidateConfig ==
    /\ config # NoConfig /\ errors = NotValidated
    /\ errors' = [validated |-> TRUE, list |-> ValidateProviderConfig(config)]
    /\ UNCHANGED <<env, config, sttCreated>>

\* The server creates the STT provider from the configuration it loaded.
CreateStt ==
    /\ config # NoConfig /\ sttCreated = NotCreated
    /\ sttCreated' = CreateSTTProvider(config)
    /\ UNCHANGED <<env, config, errors>>

\* ----------------------------------------------------------- TTS provider
\* A Buffer is a sequence of bytes.  n as w bytes, little-endian.
LE(n, w) == [i \in 1..w |-> (n \div (256 ^ (i - 1))) % 256]

\* buf.readUInt16LE(offset) and buf.readUInt32LE(offset)
ReadUInt16LE(buf, offset) == buf[offset + 1] + 256 * buf[offset + 2]
ReadUInt32LE(buf, offset) ==
    buf[offset + 1] + 256 * buf[offset + 2] + 65536 * buf[offset + 3] + 16777216 * buf[offset + 4]

\* The FourCCs of a WAV file, in ASCII.
FourCC(name) ==
    CASE name = "RIFF" -> <<82, 73, 70, 70>>
      [] name = "WAVE" -> <<87, 65, 86, 69>>
      [] name = "fmt " -> <<102, 109, 116, 32>>
      [] name = "LIST" -> <<76, 73, 83, 84>>
      [] OTHER -> <<100, 97, 116, 97>>

\* A chunk: FourCC, length, content.
Chunk(name, content) == FourCC(name) \o LE(Len(content), 4) \o content

\* A mono PCM WAV file: the fmt chunk, the chunks of extra (before the data
\* chunk) and the data chunk with payload.
WavFile(rate, bits, extra, payload) ==
    LET fmt == LE(1, 2) \o LE(1, 2) \o LE(rate, 4) \o LE(rate * (bits \div 8), 4)
               \o LE(bits \div 8, 2) \o LE(bits, 2)
        body == FourCC("WAVE") \o Chunk("fmt ", fmt) \o extra \o Chunk("data", payload)
    IN  FourCC("RIFF") \o LE(Len(body), 4) \o body

\* The payloads, and the chunks a server may put before the data chunk: none,
\* or a LIST chunk of 2 or of 26 bytes (data chunk at offset 54 or 78).
Payloads == {<<>>, <<1, 2>>, <<7, 0, 9, 0>>}
ExtraChunks == {<<>>, Chunk("LIST", <<73, 78>>), Chunk("LIST", [i \in 1..26 |-> 0])}

\* The responses of the speech API: raw PCM, or a WAV file.  A response
\* records how it was built.
PcmResponses ==
    {[format |-> "pcm", bytes |-> p, payload |-> p, dataOffset |-> 0, rate |-> 0, bits |-> 16] :
        p \in Payloads}
WavResponses ==
    {[format |-> "wav", bytes |-> WavFile(r, b, x, p), payload |-> p,
      dataOffset |-> 36 + Len(x) + 8, rate |-> r, bits |-> b] :
        r \in {8000, 16000, 24000}, b \in {8, 16, 24}, x \in ExtraChunks, p \in Payloads}

NoResponse == [format |-> "none", bytes |-> <<>>, payload |-> <<>>, dataOffset |-> 0,
               rate |-> 0, bits |-> 0]

\* The provider as constructed.
TtsInit ==
    /\ ttsName = "openai"
    /\ ttsSampleRate = DefaultSampleRate
    /\ ttsClient = FALSE
    /\ ttsInit = "none"
    /\ ttsResponse = NoResponse
    /\ ttsResult = [state |-> "none", audio |-> <<>>]

\* The configurations the provider is initialized with: sampleRate 0 is
\* undefined.
TtsConfigs ==
    [apiKey : {"", "sk-tts"}, apiUrl : {Undefined, "https://api.lemonfox.ai/v1"},
     sampleRate : {0, 8000, 24000}]

\* initialize(config)
TtsInitialize(cfg) ==
    /\ ~ttsClient
    /\ IF ~Truthy(cfg.apiKey)
       THEN /\ ttsInit' = "failed"
            /\ UNCHANGED <<ttsName, ttsSampleRate, ttsClient>>
       ELSE /\ ttsClient' = TRUE
            /\ ttsInit' = "created"
            /\ ttsName' = IF cfg.apiUrl = "https://api.lemonfox.ai/v1" THEN "lemonfox" ELSE ttsName
            /\ ttsSampleRate' = IF cfg.sampleRate # 0 THEN cfg.sampleRate ELSE DefaultSampleRate
    /\ UNCHANGED <<ttsResponse, ttsResult>>

\* The format synthesize asks the speech API for.
RequestedFormat == IF ttsName = "lemonfox" THEN "wav" ELSE "pcm"

\* synthesize(text) with the response resp of the speech API.
Synthesize(resp) ==
    LET useWav == ttsName = "lemonfox"
        buffer == resp.bytes
    IN  /\ ttsResponse' = resp
        /\ IF ~ttsClient
           THEN /\ ttsResult' = [state |-> "threw", audio |-> <<>>]
                /\ UNCHANGED ttsSampleRate
           ELSE IF useWav /\ Len(buffer) > WavHeaderLength
           THEN /\ ttsSampleRate' = ReadUInt32LE(buffer, 24)
                /\ ttsResult' = [state |-> "returned",
                                 audio |-> SubSeq(buffer, WavHeaderLength + 1, Len(buffer))]
           ELSE /\ ttsResult' = [state |-> "returned", audio |-> buffer]
                /\ UNCHANGED ttsSampleRate
        /\ UNCHANGED <<ttsName, ttsClient, ttsInit>>

\* createTTSProvider(config): the server creates the TTS provider from the
\* configuration it loaded.  The provider is given no sampleRate.
CreateTts ==
    /\ config # NoConfig
    /\ TtsInitialize([apiKey |-> Or(config.ttsApiKey, config.openaiApiKey),
                      apiUrl |-> config.ttsBaseUrl, sampleRate |-> 0])
    /\ UNCHANGED configVars

\* ------------------------------------------------------- server startup
\* The part of process.env that main reads itself.
MainEnvs ==
    [PUBLIC_URL : {Undefined, "", "https://callme.example"},
     PORT : {Undefined, "8080"},
     CALLME_PORT : {Undefined, "4000"},
     USER_PHONE_NUMBER : {Undefined, "+15550199"}]

NoMainEnv ==
    [PUBLIC_URL |-> Undefined, PORT |-> Undefined, CALLME_PORT |-> Undefined,
     USER_PHONE_NUMBER |-> Undefined]

\* The process before main runs, in the environment en.
MainInit(en) ==
    /\ mainEnv = en
    /\ mainPc = "start"
    /\ exitCode = -1
    /\ port = 0
    /\ callManager = FALSE
    /\ listening = FALSE

\* parseInt(s, 10) of the port strings.
ParseInt(s) ==
    CASE s = "8080" -> 8080
      [] s = "4000" -> 4000
      [] OTHER -> 3333

\* process.exit(code)
Exit(code) ==
    /\ mainPc' = "exited"
    /\ exitCode' = code

\* main: the public URL is required; the port is computed.
MainPublicUrl ==
    /\ mainPc = "start"
    /\ IF ~Truthy(mainEnv.PUBLIC_URL)
       THEN Exit(1) /\ UNCHANGED port
       ELSE /\ mainPc' = "load"
            /\ port' = ParseInt(Or(mainEnv.PORT, Or(mainEnv.CALLME_PORT, "3333")))
            /\ UNCHANGED exitCode
    /\ UNCHANGED <<mainEnv, callManager, listening>>

\* loadServerConfig(publicUrl) throws: a required setting is missing.
LoadServerConfigThrows ==
    \/ ~Truthy(mainEnv.USER_PHONE_NUMBER)
    \/ ValidateProviderConfig(LoadProviderConfig(env)) # <<>>

\* main: a configuration error is logged and loading goes on.
MainLoadConfigNoExit ==
    /\ mainPc = "load"
    /\ mainPc' = "create"
    /\ UNCHANGED <<mainEnv, exitCode, port, callManager, listening>>

\* main: the server configuration is loaded; a failure ends the process.
MainLoadConfig ==
    /\ mainPc = "load"
    /\ IF LoadServerConfigThrows
       THEN Exit(1)
       ELSE mainPc' = "create" /\ UNCHANGED exitCode
    /\ UNCHANGED <<mainEnv, port, callManager, listening>>

\* main: new CallManager(serverConfig)
MainCreateCallManager ==
    /\ mainPc = "create"
    /\ callManager' = TRUE
    /\ mainPc' = "listen"
    /\ UNCHANGED <<mainEnv, exitCode, port, listening>>

\* main: httpServer.listen(port, '0.0.0.0', ...)
MainListen ==
    /\ mainPc = "listen"
    /\ listening' = TRUE
    /\ mainPc' = "serving"
    /\ UNCHANGED <<mainEnv, exitCode, port, callManager>>

\* SIGINT or SIGTERM: shutdown ends the process with code 0.
MainShutdown ==
    /\ mainPc = "serving"
    /\ listening' = FALSE
    /\ Exit(0)
    /\ UNCHANGED <<mainEnv, port, callManager>>

\* ------------------------------------------- MCP endpoints, HTTP variant
\* A transport: its kind and its number.  Its session id is its own.
NoTransport == [kind |-> "none", n |-> 0]
Transport(kind, n) == [kind |-> kind, n |-> n]
SessionIdOf(t) == <<"sid", t.kind, t.n>>
UnknownSession == <<"sid", "unknown", 0>>

NoRequestYet ==
    [path |-> "none", method |-> "none", sessionId |-> NoSession, body |-> "none",
     named |-> NoTransport, handledBy |-> NoTransport, created |-> FALSE, status |-> 0]

HttpInit ==
    /\ transports = <<>>
    /\ httpOpen = {}
    /\ httpCount = 0
    /\ httpDown = FALSE
    /\ lastReq = NoRequestYet

\* transports.get(sessionId), NoTransport for undefined or for no session id.
Lookup(sid) ==
    IF sid # NoSession /\ \E i \in 1..Len(transports) : transports[i].key = sid
    THEN LET en == transports[CHOOSE i \in 1..Len(transports) : transports[i].key = sid]
         IN  Transport(en.kind, en.n)
    ELSE NoTransport

\* transports.set(transport.sessionId, transport)
Register(m, t) == Append(MapDelete(m, SessionIdOf(t)), [key |-> SessionIdOf(t), kind |-> t.kind, n |-> t.n])

\* GET /sse: a transport is created and registered under its own session id.
HttpSseConnect ==
    /\ ~httpDown
    /\ httpCount' = httpCount + 1
    /\ transports' = Register(transports, Transport("sse", httpCount + 1))
    /\ httpOpen' = httpOpen \cup {Transport("sse", httpCount + 1)}
    /\ UNCHANGED <<httpDown, lastReq>>

\* GET /sse when mcpServer.connect rejects: the transport has been
\* registered, nothing catches the rejection of the request listener, and the
\* runtime ends the process on the unhandled rejection.
HttpSseConnectFails ==
    /\ ~httpDown
    /\ httpCount' = httpCount + 1
    /\ httpDown' = TRUE
    /\ transports' = <<>>
    /\ httpOpen' = {}
    /\ UNCHANGED lastReq

\* The 'close' event of the response of an SSE connection.
HttpSseClose(t) ==
    /\ ~httpDown
    /\ t \in httpOpen /\ t.kind = "sse"
    /\ transports' = MapDelete(transports, SessionIdOf(t))
    /\ httpOpen' = httpOpen \ {t}
    /\ UNCHANGED <<httpCount, httpDown, lastReq>>

\* The request bodies, by what the /mcp handler does with them: an
\* initialize request, another JSON value, no body, text that is not JSON.
Bodies == {"initialize", "other", "empty", "malformed"}
Methods == {"GET", "POST", "DELETE"}

\* What the /mcp handler answers: the transport handles the request (200
\* stands for the transport's own answer), 400 or 500.
Answer(method, sid, body, t, isNew, status) ==
    lastReq' = [path |-> "/mcp", method |-> method, sessionId |-> sid, body |-> body,
                named |-> Lookup(sid), handledBy |-> t, created |-> isNew, status |-> status]

\* A request to /mcp.  JSON.parse throws on a body that is not JSON, and
\* mcpServer.connect may reject (connects is FALSE); the catch answers 500.
McpRequest(method, sid, body, connects) ==
    LET existing == Lookup(sid)
        transport == IF existing.kind = "http" THEN existing ELSE NoTransport
        new == Transport("http", httpCount + 1)
    IN
    /\ ~httpDown
    /\ IF method = "POST" /\ body = "malformed"
       THEN /\ Answer(method, sid, body, NoTransport, FALSE, 500)
            /\ UNCHANGED <<transports, httpOpen, httpCount>>
       ELSE IF transport = NoTransport /\ method = "POST" /\ body = "initialize" /\ ~connects
       THEN /\ httpCount' = httpCount + 1
            /\ Answer(method, sid, body, NoTransport, FALSE, 500)
            /\ UNCHANGED <<transports, httpOpen>>
       ELSE IF transport = NoTransport /\ method = "POST" /\ body = "initialize"
       THEN /\ httpCount' = httpCount + 1
            /\ transports' = Register(transports, new)
            /\ httpOpen' = httpOpen \cup {new}
            /\ Answer(method, sid, body, new, TRUE, 200)
       ELSE IF transport # NoTransport
       THEN /\ Answer(method, sid, body, transport, FALSE, 200)
            /\ UNCHANGED <<transports, httpOpen, httpCount>>
       ELSE /\ Answer(method, sid, body, NoTransport, FALSE, 400)
            /\ UNCHANGED <<transports, httpOpen, httpCount>>
    /\ UNCHANGED httpDown

\* An onclose handler that leaves the registry alone.
McpSessionCloseKeepsTransport(t) ==
    /\ ~httpDown
    /\ t \in httpOpen /\ t.kind = "http"
    /\ transports' = transports
    /\ httpOpen' = httpOpen \ {t}
    /\ UNCHANGED <<httpCount, httpDown, lastReq>>

\* transport.onclose of a Streamable-HTTP session (the session is
\* terminated).
McpSessionClose(t) ==
    /\ ~httpDown
    /\ t \in httpOpen /\ t.kind = "http"
    /\ transports' = MapDelete(transports, SessionIdOf(t))
    /\ httpOpen' = httpOpen \ {t}
    /\ UNCHANGED <<httpCount, httpDown, lastReq>>

\* POST /messages?sessionId=sid
HttpMessages(sid) ==
    LET existing == Lookup(sid) IN
    /\ ~httpDown
    /\ lastReq' = [path |-> "/messages", method |-> "POST", sessionId |-> sid, body |-> "other",
                   named |-> existing,
                   handledBy |-> IF existing.kind = "sse" THEN existing ELSE NoTransport,
                   created |-> FALSE,
                   status |-> IF existing.kind = "sse" THEN 202 ELSE 400]
    /\ UNCHANGED <<transports, httpOpen, httpCount, httpDown>>

\* shutdown: every transport is closed and the registry cleared.
HttpShutdown ==
    /\ ~httpDown
    /\ httpDown' = TRUE
    /\ transports' = <<>>
    /\ httpOpen' = {}
    /\ UNCHANGED <<httpCount, lastReq>>

\* The session ids a client may send.
HttpSessionIds ==
    {NoSession, UnknownSession}
    \cup {SessionIdOf(Transport(kind, n)) : kind \in {"sse", "http"}, n \in 1..httpCount}

\* --------------------------------------------------------- subscriptions
Users == {"u1", "u2"}
NoUser == "<no user>"
NoStripeConfig == [webhookSecret |-> Undefined, priceId |-> Undefined]
StripeConfigs == [webhookSecret : {"", "whsec_1"}, priceId : {"", "price_1"}]
\* The subscriptions at Stripe; UnknownSubscription is in no user record.
SubscriptionIds == {"sub_1"}
UnknownSubscription == "sub_2"
NoWebhook == [type |-> "none", subscription |-> "", signedWith |-> "", outcome |-> "none"]

\* A user record as it is created: no customer, no subscription.
NewUser(used) ==
    [stripe_customer_id |-> 0, stripe_subscription_id |-> "", subscription_status |-> "none",
     minutes_used |-> used]

StripeInit ==
    /\ stripe = FALSE
    /\ stripeConfig = NoStripeConfig
    /\ users = [u \in Users |-> NewUser(IF u = "u1" THEN 5 ELSE 0)]
    /\ customers = <<>>
    /\ checkouts = <<>>
    /\ webhook = NoWebhook

\* initStripe(stripeConfig)
InitStripe(cfg) ==
    /\ stripeConfig' = cfg
    /\ stripe' = TRUE
    /\ UNCHANGED <<users, customers, checkouts, webhook>>

\* database.js: the lookups, NoUser for undefined.
GetUserByStripeCustomerId(cid) ==
    IF cid # 0 /\ \E u \in Users : users[u].stripe_customer_id = cid
    THEN CHOOSE u \in Users : users[u].stripe_customer_id = cid
    ELSE NoUser
GetUserByStripeSubscriptionId(sid) ==
    IF sid # "" /\ \E u \in Users : users[u].stripe_subscription_id = sid
    THEN CHOOSE u \in Users : users[u].stripe_subscription_id = sid
    ELSE NoUser

\* database.js: the updates of a user record.
UpdateUserStripeCustomerId(db, u, cid) == [db EXCEPT ![u].stripe_customer_id = cid]
UpdateUserSubscription(db, u, sid, status) ==
    [db EXCEPT ![u].stripe_subscription_id = sid, ![u].subscription_status = status]
CancelUserSubscription(db, u) == [db EXCEPT ![u].subscription_status = "cancelled"]
ResetUserMinutes(db, u) == [db EXCEPT ![u].minutes_used = 0]

\* The events a webhook payload may carry.  customer names any customer
\* created so far or one unknown to the database (0); a subscription is
\* created active.
WebhookEvents ==
    [type : {"customer.subscription.created"},
     customer : 0..Len(customers), id : SubscriptionIds, status : {"active"}]
    \cup [type : {"customer.subscription.updated"},
          customer : 0..Len(customers), id : SubscriptionIds,
          status : {"active", "canceled", "past_due"}]
    \cup [type : {"customer.subscription.deleted"}, id : SubscriptionIds \cup {UnknownSubscription}]
    \cup [type : {"invoice.paid"}, subscription : SubscriptionIds \cup {""}, period : BOOLEAN]
    \cup [type : {"charge.succeeded"}]

\* What the history keeps of a call: the event's type and subscription.
Called(event, signedWith, outcome) ==
    [type |-> event.type,
     subscription |-> IF event.type = "invoice.paid" THEN event.subscription
                      ELSE IF event.type = "charge.succeeded" THEN "" ELSE event.id,
     signedWith |-> signedWith, outcome |-> outcome]

\* handleSubscriptionUpdate(subscription): the user records afterwards.
HandleSubscriptionUpdate(subscription) ==
    LET user == GetUserByStripeCustomerId(subscription.customer)
        status == IF subscription.status = "active" THEN "active"
                  ELSE IF subscription.status = "canceled" THEN "cancelled" ELSE "none"
    IN  IF user = NoUser THEN users
        ELSE UpdateUserSubscription(users, user, subscription.id, status)

\* The switch of handleWebhook on a verified event: the user records
\* afterwards.
Dispatch(event) ==
    CASE event.type \in {"customer.subscription.created", "customer.subscription.updated"} ->
           HandleSubscriptionUpdate(event)
      [] event.type = "customer.subscription.deleted" ->
           LET user == GetUserByStripeSubscriptionId(event.id) IN
           IF user # NoUser THEN CancelUserSubscription(users, user) ELSE users
      [] event.type = "invoice.paid" ->
           LET user == IF Truthy(event.subscription)
                       THEN GetUserByStripeSubscriptionId(event.subscription) ELSE NoUser
           IN  IF user # NoUser /\ event.period THEN ResetUserMinutes(users, user) ELSE users
      [] OTHER -> users

\* handleWebhook without the verification of the signature.
HandleWebhookNoVerify(event, signedWith) ==
    /\ users' = Dispatch(event)
    /\ webhook' = Called(event, signedWith, "returned")
    /\ UNCHANGED <<stripe, stripeConfig, customers, checkouts>>

\* handleWebhook(payload, signature), the payload carrying event and being
\* signed with the secret signedWith: constructEvent throws unless that is
\* the configured secret.
HandleWebhook(event, signedWith) ==
    /\ IF ~stripe \/ ~Truthy(stripeConfig.webhookSecret) \/ signedWith # stripeConfig.webhookSecret
       THEN /\ webhook' = Called(event, signedWith, "threw")
            /\ UNCHANGED users
       ELSE /\ webhook' = Called(event, signedWith, "returned")
            /\ users' = Dispatch(event)
    /\ UNCHANGED <<stripe, stripeConfig, customers, checkouts>>

\* createSubscriptionCheckout(userId, ...) up to its first await: the
\* customer id is read from the user record; a user without one has a
\* customer created.
CreateSubscriptionCheckout(u) ==
    /\ checkouts' = Append(checkouts,
          IF ~stripe \/ u = NoUser \/ ~Truthy(stripeConfig.priceId)
          THEN [user |-> u, pc |-> "threw", customerId |-> 0]
          ELSE IF users[u].stripe_customer_id = 0
          THEN [user |-> u, pc |-> "customer", customerId |-> 0]
          ELSE [user |-> u, pc |-> "session", customerId |-> users[u].stripe_customer_id])
    /\ UNCHANGED <<stripe, stripeConfig, users, customers, webhook>>

\* createStripeCustomer for call i: customers.create resolves with a new
\* customer, whose id is stored in the user record.
CreateStripeCustomer(i) ==
    /\ checkouts[i].pc = "customer"
    /\ customers' = Append(customers, checkouts[i].user)
    /\ users' = UpdateUserStripeCustomerId(users, checkouts[i].user, Len(customers) + 1)
    /\ checkouts' = [checkouts EXCEPT ![i].pc = "session", ![i].customerId = Len(customers) + 1]
    /\ UNCHANGED <<stripe, stripeConfig, webhook>>

\* A request to Stripe of call i is rejected: the call throws.
StripeRejects(i) ==
    /\ checkouts[i].pc \in {"customer", "session"}
    /\ checkouts' = [checkouts EXCEPT ![i].pc = "threw"]
    /\ UNCHANGED <<stripe, stripeConfig, users, customers, webhook>>

\* checkout.sessions.create of call i resolves: the call returns the URL.
CheckoutSessionCreated(i) ==
    /\ checkouts[i].pc = "session"
    /\ checkouts' = [checkouts EXCEPT ![i].pc = "returned"]
    /\ UNCHANGED <<stripe, stripeConfig, users, customers, webhook>>

\* ------------------------------------------------------ subscription plan
\* A JavaScript number: an integer or NaN.
Num(n) == [nan |-> FALSE, v |-> n]
NaN == [nan |-> TRUE, v |-> 0]

\* a - b, Math.max(a, b) and a < b on such numbers.
Minus(a, b) == IF a.nan \/ b.nan THEN NaN ELSE Num(a.v - b.v)
MathMax(a, b) == IF a.nan \/ b.nan THEN NaN ELSE IF a.v >= b.v THEN a ELSE b
LessThan(a, b) == ~a.nan /\ ~b.nan /\ a.v < b.v

\* An environment variable: unset, or set to a string (a sequence of
\* characters).
Unset == [set |-> FALSE, text |-> <<>>]
Set(s) == [set |-> TRUE, text |-> s]
\* value || fallback
OrText(value, fallback) == IF value.set /\ value.text # <<>> THEN value.text ELSE fallback

DigitValue(c) ==
    CASE c = "0" -> 0 [] c = "1" -> 1 [] c = "2" -> 2 [] c = "3" -> 3 [] c = "4" -> 4
      [] c = "5" -> 5 [] c = "6" -> 6 [] c = "7" -> 7 [] c = "8" -> 8 [] c = "9" -> 9
      [] OTHER -> -1

\* The value of the digits that s starts with, after the digits read so far.
RECURSIVE LeadingDigits(_, _)
LeadingDigits(s, acc) ==
    IF s = <<>> \/ DigitValue(Head(s)) < 0 THEN acc
    ELSE LeadingDigits(Tail(s), 10 * acc + DigitValue(Head(s)))

\* parseInt(s, 10): leading blanks, a sign, then digits up to the first
\* other character; NaN without a digit.
ParseInt10(s) ==
    LET t == TrimStart(s)
        signed == t # <<>> /\ Head(t) \in {"-", "+"}
        d == IF signed THEN Tail(t) ELSE t
    IN  IF d = <<>> \/ DigitValue(Head(d)) < 0 THEN NaN
        ELSE IF signed /\ Head(t) = "-" THEN Num(-LeadingDigits(d, 0))
        ELSE Num(LeadingDigits(d, 0))

BillingEnvs ==
    [MONTHLY_PRICE_CENTS : {Unset, Set(<<"9", "9", "9">>)},
     MONTHLY_MINUTES : {Unset, Set(<<>>), Set(<<"0">>), Set(<<"3">>), Set(<<"6", "0">>),
                        Set(<<"-", "1">>), Set(<<"a", "b", "c">>), Set(<<" ", "5", "x">>)}]
NoBillingEnv == [MONTHLY_PRICE_CENTS |-> Unset, MONTHLY_MINUTES |-> Unset]
NotAsked ==
    [asked |-> FALSE, minutesUsed |-> 0, monthlyMinutes |-> Num(0), remaining |-> Num(0),
     has |-> FALSE]

BillingInit(en) ==
    /\ billingEnv = en
    /\ plan = [monthlyPriceCents |-> Num(DefaultMonthlyPriceCents),
               monthlyMinutes |-> Num(DefaultMonthlyMinutes)]
    /\ planLoaded = FALSE
    /\ minutes = NotAsked

\* loadBillingConfig()
LoadBillingConfig ==
    /\ plan' = [monthlyPriceCents |-> ParseInt10(OrText(billingEnv.MONTHLY_PRICE_CENTS, <<"2", "0", "0", "0">>)),
                monthlyMinutes |-> ParseInt10(OrText(billingEnv.MONTHLY_MINUTES, <<"6", "0">>))]
    /\ planLoaded' = TRUE
    /\ UNCHANGED <<billingEnv, minutes>>

\* getMinutesRemaining(minutesUsed)
GetMinutesRemaining(minutesUsed) == MathMax(Num(0), Minus(plan.monthlyMinutes, Num(minutesUsed)))

\* A test that also passes when the minutes are used up.
HasMinutesRemainingInclusive(minutesUsed) ==
    ~LessThan(plan.monthlyMinutes, Num(minutesUsed)) /\ ~plan.monthlyMinutes.nan

\* hasMinutesRemaining(minutesUsed)
HasMinutesRemaining(minutesUsed) == LessThan(Num(minutesUsed), plan.monthlyMinutes)

\* A caller asks both functions about minutesUsed.
AskMinutes(minutesUsed) ==
    /\ minutes' = [asked |-> TRUE, minutesUsed |-> minutesUsed,
                   monthlyMinutes |-> plan.monthlyMinutes,
                   remaining |-> GetMinutesRemaining(minutesUsed),
                   has |-> HasMinutesRemaining(minutesUsed)]
    /\ UNCHANGED <<billingEnv, plan, planLoaded>>

\* The minutes a user may have used: few, and around the default plan.
MinutesUsed ==
    0..MaxMinutesUsed
    \cup {DefaultMonthlyMinutes - 1, DefaultMonthlyMinutes, DefaultMonthlyMinutes + 1}

\* ------------------------------------------------------- specifications
\* The bounds are those of the environment, not of the session: mk sockets,
\* mw waitForTranscript calls, ms segments in the accumulator, ma sendAudio
\* calls.

Init ==
    /\ SttInit /\ CallInit /\ SseInit /\ ToolInit /\ ConfigInit(NoEnv) /\ TtsInit
    /\ MainInit(NoMainEnv)
    /\ BillingInit(NoBillingEnv)
    /\ StripeInit
    /\ HttpInit

\* connect(), close() and what the upstream sockets and the timers do.
ConnStep(mk) ==
    \/ Connect /\ UNCHANGED notStt
    \/ Close /\ UNCHANGED notStt
    \/ \E k \in Sockets : WsOpen(k) /\ UNCHANGED notStt
    \/ \E k \in Sockets : WsCloseFrame(k) /\ UNCHANGED notStt
    \/ \E k \in Sockets : WsClose(k) /\ UNCHANGED notStt
    \/ \E k \in Sockets : WsError(k) /\ UNCHANGED notStt
    \/ \E k \in Sockets : ConnectTimeout(k) /\ UNCHANGED notStt
    \/ \E t \in backoff : (closed \/ Len(sock) < mk) /\ BackoffElapsed(t) /\ UNCHANGED notStt
    \/ \E i \in intervals : KeepAliveTick(i) /\ UNCHANGED notStt

\* The recognizer's messages, waitForTranscript() and its timers; tick says
\* whether msgTick follows the messages.
TextStep(mw, ms, tick) ==
    \/ \E k \in Sockets, e \in Events :
          /\ Accumulates(e) => Len(pendingTranscript) < 2 * ms /\ Len(sinceArm) < 2 * ms
          /\ WsMessage(k, e)
          /\ msgTick' = IF tick THEN ~msgTick ELSE msgTick
          /\ UNCHANGED notStt
    \/ Len(waiters) < mw /\ WaitForTranscript /\ UNCHANGED notStt
    \/ \E w \in 1..Len(waiters) : TranscriptTimeout(w) /\ UNCHANGED notStt

\* The session over its whole reconnect budget, with one listener.
Next == ConnStep(MaxSockets) \/ TextStep(ConnWaiters, ConnSegments, FALSE)

Spec == Init /\ [][Next]_vars

\* The transcript side in depth: overlapping waitForTranscript calls and
\* utterances of several segments.
NextText == ConnStep(TextSockets) \/ TextStep(MaxWaiters, MaxSegments, TRUE)

SpecText == Init /\ [][NextText]_vars

\* The transcript side with a partial subscriber.
NextPartial ==
    \/ ConnStep(TextSockets)
    \/ TextStep(ConnWaiters, ConnSegments, FALSE)
    \/ OnPartial /\ UNCHANGED notStt

SpecPartial == Init /\ [][NextPartial]_vars

\* A listener across outages and reconnections.
NextOutage == ConnStep(OutageSockets) \/ TextStep(ConnWaiters, ConnSegments, FALSE)

SpecOutage == Init /\ [][NextOutage]_vars

\* The audio path across connect, outage, reconnect and close.
NextAudio ==
    ConnStep(AudioSockets) \/ (audioCalls < MaxAudio /\ SendAudio /\ UNCHANGED notStt)

SpecAudio == Init /\ [][NextAudio]_vars

\* The reconnect policy with its timers running.  The upstream may fail a
\* socket only while fewer than MaxSockets have been created, so that the
\* session is never kept from the attempt it has scheduled; a socket may
\* open, or stay in its handshake, at any time.
MayFail(k) == closed \/ Len(sock) < MaxSockets \/ sock[k] \in {"LOCAL_CLOSING", "REMOTE_CLOSING"}

NextRetry ==
    \/ Connect /\ UNCHANGED notStt
    \/ Close /\ UNCHANGED notStt
    \/ \E k \in Sockets : WsOpen(k) /\ UNCHANGED notStt
    \/ \E k \in Sockets : MayFail(k) /\ WsCloseFrame(k) /\ UNCHANGED notStt
    \/ \E k \in Sockets : MayFail(k) /\ WsClose(k) /\ UNCHANGED notStt
    \/ \E k \in Sockets : MayFail(k) /\ WsError(k) /\ UNCHANGED notStt
    \/ \E k \in Sockets : ConnectTimeout(k) /\ UNCHANGED notStt
    \/ \E t \in backoff : BackoffElapsed(t) /\ UNCHANGED notStt
    \/ \E i \in intervals : KeepAliveTick(i) /\ UNCHANGED notStt

SpecRetry == Init /\ [][NextRetry]_vars

\* A timer that is armed fires: the backoff delay of attemptReconnect and
\* the 10 s timer of doConnect.
FairRetry ==
    /\ WF_vars(\E t \in backoff : BackoffElapsed(t) /\ UNCHANGED notStt)
    /\ WF_vars(\E k \in Sockets : ConnectTimeout(k) /\ UNCHANGED notStt)

SpecRetryFair == SpecRetry /\ FairRetry

\* One outbound call: mm media frames forwarded, mr transcriptions of the
\* user, mc detections of the closing phrase.
CallStep(mm, mr, mc) ==
    \/ HttpListening /\ UNCHANGED notCall
    \/ CallCreated /\ UNCHANGED notCall
    \/ CallCreateFailed /\ UNCHANGED notCall
    \/ Watchdog /\ UNCHANGED notCall
    \/ WssConnection /\ UNCHANGED notCall
    \/ \E f \in Frames : (Forwards(f) => mediaSent < mm) /\ TwilioFrame(f) /\ UNCHANGED notCall
    \/ TwilioClose /\ UNCHANGED notCall
    \/ TwilioError /\ UNCHANGED notCall
    \/ CallTimeout /\ UNCHANGED notCall
    \/ OpenAIOpen /\ UNCHANGED notCall
    \/ \E e \in OpenAIEvents :
          /\ e.type = "transcription" => Len(userResponses) < mr
          /\ e.type = "done_closing" => completeTimers < mc
          /\ OpenAIEvent(e)
          /\ UNCHANGED notCall
    \/ OpenAIError /\ UNCHANGED notCall
    \/ OpenAIClose /\ UNCHANGED notCall
    \/ CompleteTimer /\ UNCHANGED notCall

NextCall == CallStep(MaxMedia, MaxResponses, MaxCompletions)

SpecCall == Init /\ [][NextCall]_vars

\* The timers of a call fire, the server comes to listen and the request
\* that places the call is answered.
FairCall ==
    /\ WF_vars(HttpListening /\ UNCHANGED notCall)
    /\ WF_vars((CallCreated \/ CallCreateFailed) /\ UNCHANGED notCall)
    /\ WF_vars(Watchdog /\ UNCHANGED notCall)
    /\ WF_vars(CallTimeout /\ UNCHANGED notCall)
    /\ WF_vars(CompleteTimer /\ UNCHANGED notCall)

SpecCallFair == SpecCall /\ FairCall

\* The SSE endpoints with mc connections.
NextSse ==
    \/ sseCount < MaxSse /\ SseConnect /\ UNCHANGED notSse
    \/ \E c \in 1..sseCount : SseClose(c) /\ UNCHANGED notSse
    \/ \E sid \in SessionIds : PostMessages(sid) /\ UNCHANGED notSse

SpecSse == Init /\ [][NextSse]_vars

\* The MCP endpoints of the HTTP variant: MaxHttp transports of either kind.
NextHttp ==
    \/ httpCount < MaxHttp /\ HttpSseConnect /\ UNCHANGED notHttp
    \/ httpCount < MaxHttp /\ HttpSseConnectFails /\ UNCHANGED notHttp
    \/ \E t \in httpOpen : HttpSseClose(t) /\ UNCHANGED notHttp
    \/ \E method \in Methods, sid \in HttpSessionIds, body \in Bodies, connects \in BOOLEAN :
          /\ (method = "POST" /\ body = "initialize") => httpCount < MaxHttp
          /\ McpRequest(method, sid, IF method = "POST" THEN body ELSE "empty", connects)
          /\ UNCHANGED notHttp
    \/ \E t \in httpOpen : McpSessionClose(t) /\ UNCHANGED notHttp
    \/ \E sid \in HttpSessionIds : HttpMessages(sid) /\ UNCHANGED notHttp
    \/ HttpShutdown /\ UNCHANGED notHttp

SpecHttp == Init /\ [][NextHttp]_vars

\* The registry of either server: the process runs index-sse.ts or the HTTP
\* variant, never both.
NextRegistry ==
    \/ HttpInit /\ NextSse
    \/ SseInit /\ NextHttp

SpecRegistry == Init /\ [][NextRegistry]_vars

\* Subscriptions: mc checkout calls and any webhooks.
StripeStep(mc) ==
    \/ \E cfg \in StripeConfigs : ~stripe /\ InitStripe(cfg) /\ UNCHANGED notStripe
    \/ \E event \in WebhookEvents, signedWith \in {"", "whsec_1", "whsec_2"} :
          HandleWebhook(event, signedWith) /\ UNCHANGED notStripe
    \/ \E u \in Users \cup {NoUser} :
          Len(checkouts) < mc /\ CreateSubscriptionCheckout(u) /\ UNCHANGED notStripe
    \/ \E i \in 1..Len(checkouts) : CreateStripeCustomer(i) /\ UNCHANGED notStripe
    \/ \E i \in 1..Len(checkouts) : StripeRejects(i) /\ UNCHANGED notStripe
    \/ \E i \in 1..Len(checkouts) : CheckoutSessionCreated(i) /\ UNCHANGED notStripe

NextStripe == StripeStep(MaxCheckouts)

SpecStripe == Init /\ [][NextStripe]_vars

\* Webhooks on the users of WebhookCheckouts checkout calls.
NextWebhook == StripeStep(WebhookCheckouts)

SpecWebhook == Init /\ [][NextWebhook]_vars

\* The plan in any environment, and questions about any minutes used.
InitBilling ==
    /\ SttInit /\ CallInit /\ SseInit /\ ToolInit /\ ConfigInit(NoEnv) /\ TtsInit
    /\ MainInit(NoMainEnv) /\ HttpInit /\ StripeInit
    /\ \E en \in BillingEnvs : BillingInit(en)

NextBilling ==
    \/ ~planLoaded /\ LoadBillingConfig /\ UNCHANGED notBilling
    \/ \E minutesUsed \in MinutesUsed : AskMinutes(minutesUsed) /\ UNCHANGED notBilling

SpecBilling == InitBilling /\ [][NextBilling]_vars

\* Tool requests of the MCP sessions on the calls of one CallManager.
NextTool ==
    \/ \E s \in 1..MaxSessions, name \in ToolNames \cup {"unknown_tool"},
          c \in 1..MaxCalls, args \in BOOLEAN :
          /\ reqCount < MaxRequests
          /\ name = "initiate_call" /\ args => callCount < MaxCalls
          /\ ToolCall(s, name, c, args)
          /\ UNCHANGED notTool
    \/ \E rq \in inflight, outcome \in Outcomes : OpSettles(rq, outcome) /\ UNCHANGED notTool

SpecTool == Init /\ [][NextTool]_vars

\* The provider factory in every environment of Envs.
InitConfig ==
    /\ SttInit /\ CallInit /\ SseInit /\ ToolInit /\ TtsInit /\ MainInit(NoMainEnv)
    /\ BillingInit(NoBillingEnv)
    /\ StripeInit
    /\ HttpInit
    /\ \E en \in Envs : ConfigInit(en)

NextConfig ==
    \/ LoadConfig /\ UNCHANGED notConfig
    \/ ValidateConfig /\ UNCHANGED notConfig
    \/ CreateStt /\ UNCHANGED notConfig
    \/ CreateTts /\ UNCHANGED <<sttVars, callVars, sseVars, toolVars, mainVars, billingVars, stripeVars, httpVars>>

SpecConfig == InitConfig /\ [][NextConfig]_vars

\* The TTS provider: it is initialized, and synthesize gets a response in the
\* format it asked for.
NextTts ==
    \/ \E cfg \in TtsConfigs : TtsInitialize(cfg) /\ UNCHANGED notTts
    \/ \E resp \in PcmResponses \cup WavResponses :
          /\ resp.format = RequestedFormat
          /\ Synthesize(resp)
          /\ UNCHANGED notTts

SpecTts == Init /\ [][NextTts]_vars

\* Startup of the cloud server: a complete provider environment with any of
\* four settings missing, and every environment of main.
ValidEnv ==
    [NoEnv EXCEPT !.PHONE_ACCOUNT_SID = "sid", !.PHONE_AUTH_TOKEN = "token",
                  !.PHONE_NUMBER = "+15550100", !.OPENAI_API_KEY = "sk-openai"]

StartupEnvs ==
    {[ValidEnv EXCEPT !.PHONE_ACCOUNT_SID = s, !.PHONE_NUMBER = n, !.OPENAI_API_KEY = k,
                      !.STT_API_KEY = d] :
        s \in {Undefined, "sid"}, n \in {"", "+15550100"}, k \in {Undefined, "sk-openai"},
        d \in {Undefined, "sk-stt"}}

InitMain ==
    /\ SttInit /\ CallInit /\ SseInit /\ ToolInit /\ TtsInit
    /\ BillingInit(NoBillingEnv)
    /\ StripeInit
    /\ HttpInit
    /\ \E en \in StartupEnvs : ConfigInit(en)
    /\ \E en \in MainEnvs : MainInit(en)

NextMain ==
    \/ MainPublicUrl /\ UNCHANGED notMain
    \/ MainLoadConfig /\ UNCHANGED notMain
    \/ MainCreateCallManager /\ UNCHANGED notMain
    \/ MainListen /\ UNCHANGED notMain
    \/ MainShutdown /\ UNCHANGED notMain

SpecMain == InitMain /\ [][NextMain]_vars

\* ----------------------------------------------------- sanity of the model
TypeOK ==
    /\ sock \in Seq(SockStates)
    /\ promise \in Seq({"pending", "resolved", "rejected", "settled"})
    /\ Len(promise) = Len(sock)
    /\ ws \in 0..Len(sock)
    /\ connected \in BOOLEAN /\ closed \in BOOLEAN
    /\ reconnectAttempts \in Nat
    /\ keepAliveInterval \in 0..Len(sock)
    /\ intervals \subseteq Sockets
    /\ onTranscriptCallback \in 0..Len(waiters)
    /\ waiters \in Seq({"pending", "resolved", "rejected"})
    /\ delivered.to \in 0..Len(waiters)

\* With connect() called once, a socket is created only after the one before
\* it has closed: at most one socket is not CLOSED.
OneLiveSocket == \A k \in Sockets : k < Len(sock) => sock[k] = "CLOSED"

\* --------------------------------------------------------------- claims
\* connect() has resolved: the session was established once.
Established == promise # <<>> /\ promise[1] = "resolved"

PendingWaiters == {w \in 1..Len(waiters) : waiters[w] = "pending"}

\* The step is the handling of message e.
MessageStep(e) == \E k \in Sockets : WsMessage(k, e)

\* An endpoint signal: a Results event with speech_final, or UtteranceEnd.
IsEndpoint(e) == (e.type = "Results" /\ e.speech_final) \/ e.type = "UtteranceEnd"

\* The segment that e adds to the accumulator.
Segment(e) == IF Accumulates(e) THEN e.transcript \o <<" ">> ELSE NoText

\* The handling of e calls the transcript callback (lines 185 and 218).
Flushes(e) ==
    \/ Accumulates(e) /\ e.speech_final
    \/ e.type = "UtteranceEnd" /\ Trim(pendingTranscript) # NoText

IsSuffix(s, t) == Len(s) <= Len(t) /\ SubSeq(t, Len(t) - Len(s) + 1, Len(t)) = s

\* C1: at most one waitForTranscript call is pending at any time, also after
\* a second call made while the first has not settled.
C1_AtMostOneWaiter == Cardinality(PendingWaiters) <= 1

\* C2: between two endpoints every final non-empty Results event appends its
\* text to the accumulator, and nothing but an endpoint removes text from
\* it; the text delivered to the waiter is the trimmed accumulator with the
\* segment of the endpoint event, and the accumulator is empty afterwards.
C2_AccumulateUntilEndpoint ==
    [][/\ \A e \in Events :
            MessageStep(e) /\ Accumulates(e) /\ ~IsEndpoint(e)
                => pendingTranscript' = pendingTranscript \o e.transcript \o <<" ">>
       /\ ~IsPrefix(pendingTranscript, pendingTranscript')
            => \E e \in Events : IsEndpoint(e) /\ MessageStep(e)
       /\ delivered' # delivered
            => /\ pendingTranscript' = NoText
               /\ \E e \in Events :
                    /\ IsEndpoint(e) /\ MessageStep(e)
                    /\ delivered'.text = Trim(pendingTranscript \o Segment(e))
      ]_vars

\* C3: an endpoint signal that arrives while the accumulator holds text and
\* a waiter is armed resolves that waiter with the accumulated text in that
\* step, whatever the transcript and the is_final flag of the event.
C3_EndpointResolvesWaiter ==
    [][\A e \in Events :
          (/\ IsEndpoint(e) /\ MessageStep(e)
           /\ pendingTranscript # NoText
           /\ onTranscriptCallback # 0)
          => /\ waiters'[onTranscriptCallback] = "resolved"
             /\ delivered'.to = onTranscriptCallback
             /\ IsPrefix(Trim(pendingTranscript), delivered'.text)
      ]_vars

\* C4 (safety part): a waitForTranscript call settles once, the session holds
\* no callback of a settled call, and a call that is pending when a finalized
\* utterance is delivered is resolved by it.
C4_SettlesOnceWithNextUtterance ==
    /\ [](onTranscriptCallback # 0 => waiters[onTranscriptCallback] = "pending")
    /\ [][/\ \A w \in 1..Len(waiters) : waiters[w] # "pending" => waiters'[w] = waiters[w]
          /\ \A e \in Events :
                MessageStep(e) /\ Flushes(e)
                    => \A w \in PendingWaiters : waiters'[w] = "resolved"
         ]_vars

\* C4 (liveness part): every waitForTranscript call eventually settles.
C4_EventuallySettles ==
    \A w \in 1..MaxWaiters :
        [](w \in PendingWaiters => <>(w \in 1..Len(waiters) /\ waiters[w] # "pending"))

\* The timer of a pending waitForTranscript call fires.
FairText == \A w \in 1..MaxWaiters : WF_vars(TranscriptTimeout(w) /\ UNCHANGED notStt)

SpecTextFair == SpecText /\ FairText

\* The step changes the state of the connection and is not part of close().
ReconnectStep ==
    /\ ~closed /\ ~closed'
    /\ sock' # sock \/ backoff' # backoff \/ connected' # connected \/ promise' # promise

\* C5: an unexpected upstream close and the reconnect that follows neither
\* settle nor disarm a pending waiter; if the waiter that was armed at the
\* close is still the armed one when an utterance is delivered after the
\* reconnection, it is resolved with that utterance.
C5_WaiterSurvivesReconnect ==
    [][/\ ReconnectStep => UNCHANGED <<waiters, onTranscriptCallback, pendingTranscript>>
       /\ \A e \in Events :
            (/\ outageWaiter # 0 /\ onTranscriptCallback = outageWaiter
             /\ Flushes(e) /\ MessageStep(e))
            => /\ waiters'[outageWaiter] = "resolved"
               /\ delivered' = [to |-> outageWaiter,
                                text |-> Trim(pendingTranscript \o Segment(e))]
      ]_vars

\* A waiter that was armed when the upstream closed is resolved by an
\* utterance of a later socket.
C5_Witness ==
    /\ outageWaiter # 0
    /\ waiters[outageWaiter] = "resolved"
    /\ delivered.to = outageWaiter /\ delivered.text # NoText
    /\ Established /\ Len(sock) >= 2 /\ connected

\* The reconnect budget is used up: the close handler of the last attempt's
\* socket has run and attemptReconnect() has given up.
Exhausted ==
    /\ ~closed
    /\ sock # <<>> /\ \A k \in Sockets : sock[k] = "CLOSED"
    /\ backoff = {}
    /\ reconnectAttempts >= 5

\* C6: when the reconnect attempts of an established session are exhausted,
\* the waiter that was outstanding during the outage is settled at that
\* moment (with STTUnavailable), not left to its timeout.
C6_ExhaustionSettlesWaiter ==
    Established /\ Exhausted /\ outageWaiter # 0 => waiters[outageWaiter] # "pending"

\* C7: reconnect attempt n (1..5) waits 1000 * 2^(n-1) ms before it
\* connects, the attempt counter never exceeds 5, and no sixth reconnect
\* attempt in a row is made without a successful open in between.
C7_BackoffBounded ==
    /\ [](/\ reconnectAttempts <= 5
          /\ sinceOpen <= 5
          /\ \A t \in backoff : t.attempt \in 1..5 /\ t.delay = 1000 * 2 ^ (t.attempt - 1))
    /\ [][Len(sock') > Len(sock) /\ sock # <<>>
            => \E t \in backoff :
                 /\ t \notin backoff'
                 /\ t.attempt = reconnectAttempts
                 /\ t.delay = 1000 * 2 ^ (reconnectAttempts - 1)
         ]_vars

\* Five reconnect attempts in a row have failed and no sixth is under way,
\* though the run could create another socket.
C7_Witness ==
    /\ Established /\ Exhausted
    /\ reconnectAttempts = 5 /\ sinceOpen = 5
    /\ Len(sock) = 6 /\ Len(sock) < MaxSockets

\* C8: after close() the session creates no socket and isConnected() stays
\* false (connect() is not called again in this model).
C8_CloseIsFinal ==
    /\ [](closed => ~isConnected /\ \A k \in Sockets : sock[k] # "OPEN")
    /\ [][closed /\ closed' => Len(sock') = Len(sock)]_vars

\* close() was called during the first backoff delay, the delay has elapsed
\* and no socket was created.
C8_Witness ==
    /\ closed
    /\ Len(sock) = 1 /\ sock[1] = "CLOSED"
    /\ reconnectAttempts = 1 /\ backoff = {}

\* C9: a sendAudio call made while the session is not connected sends
\* nothing, then or later, and does not raise.
C9_OfflineAudioDropped == audioOffline \cap audioSent = {} /\ ~sendThrew

\* The first call was sent on the first socket, the second was made in the
\* gap before the reconnected socket opened.
C9_Witness ==
    /\ audioSent = {1} /\ audioOffline = {2}
    /\ Len(sock) = 2 /\ connected

\* C10: the text a waiter receives consists only of final segments received
\* after that waiter was armed.
C10_OnlySegmentsAfterArming ==
    [][delivered' # delivered => IsSuffix(delivered'.text, Trim(sinceArm'))]_vars

\* C11: every call that makePhoneCall starts reaches a terminal outcome: its
\* promise is eventually resolved or rejected, also when the carrier never
\* opens the media socket.
C11_CallEventuallyEnds == <>(callResult # "pending")

\* The recognizer socket of the call has been closed or never existed.
RecognizerReleased == openaiSock \notin {"CONNECTING", "OPEN"}

\* C12: when the call has reached a terminal outcome, its recognizer socket,
\* the media WebSocket server and the HTTP server have been closed.
C12_EndedCallReleased ==
    callResult # "pending"
        => RecognizerReleased /\ wss = "closed" /\ httpServer = "closed"

\* C13: no media frame received before the start frame or after the stop
\* frame is forwarded to the recognizer.
C13_MediaOutsideStreamDropped == ~mediaOutside

\* C14: a POST to /messages whose sessionId is missing or names no registered
\* session is answered with an error and handed to no transport.
C14_UnknownSessionRejected ==
    lastPost.status # 0 /\ ~lastPost.registered
        => lastPost.handledBy = 0 /\ lastPost.status >= 400

\* The operations in flight on call c.
Running(c) == {r \in inflight : r.call = c}

C16_HandlerNeverThrows ==
    lastReturn.request.id # 0 =>
        /\ ~lastReturn.result.threw
        /\ lastReturn.result.isError = (lastReturn.outcome.kind # "ok")
        /\ lastReturn.outcome.kind = "error"
              => lastReturn.result.text = <<"Error: ">> \o lastReturn.outcome.message

\* An operation that was started failed with TTSFailed and the handler
\* returned the error result.
C16_Witness ==
    /\ lastReturn.request.name = "continue_call"
    /\ lastReturn.outcome = Err(<<"TTSFailed">>)
    /\ lastReturn.result.isError

\* The five requirements of a configuration, by what their error names.
Requirements(cfg) ==
    [x \in {"CALLME_PHONE_ACCOUNT_SID", "CALLME_PHONE_AUTH_TOKEN", "CALLME_PHONE_NUMBER",
            "TTS API key", "STT API key"} |->
        CASE x = "CALLME_PHONE_ACCOUNT_SID" -> cfg.phoneAccountSid \notin {Undefined, ""}
          [] x = "CALLME_PHONE_AUTH_TOKEN" -> cfg.phoneAuthToken \notin {Undefined, ""}
          [] x = "CALLME_PHONE_NUMBER" -> cfg.phoneNumber \notin {Undefined, ""}
          [] x = "TTS API key" ->
                cfg.ttsApiKey \notin {Undefined, ""} \/ cfg.openaiApiKey \notin {Undefined, ""}
          [] OTHER ->
                cfg.sttApiKey \notin {Undefined, ""} \/ cfg.openaiApiKey \notin {Undefined, ""}]

\* C17: validateProviderConfig returns no error exactly when the five
\* requirements are met, and otherwise exactly one error for each
\* requirement that is not met.
C17_OneErrorPerUnmetRequirement ==
    errors # NotValidated =>
        LET req == Requirements(config)
            unmet == {x \in DOMAIN req : ~req[x]}
        IN  /\ (errors.list = <<>>) = (\A x \in DOMAIN req : req[x])
            /\ Len(errors.list) = Cardinality(unmet)
            /\ {errors.list[i][1] : i \in 1..Len(errors.list)} = unmet

\* A configuration with the OpenAI key alone among the keys, and no phone
\* number: one error.
C17_Witness ==
    /\ errors # NotValidated /\ Len(errors.list) = 1
    /\ env.OPENAI_API_KEY = "sk-openai" /\ env.STT_API_KEY = Undefined
    /\ env.TTS_API_KEY = "" /\ env.PHONE_NUMBER = Undefined

\* C18: the STT provider created is STT_PROVIDER when that is set, else
\* deepgram when STT_API_KEY is set and openai when not; its model is
\* STT_MODEL when set, else nova-2 for deepgram and gpt-4o-transcribe for
\* openai.
C18_SttProviderSelection ==
    sttCreated.state = "created" =>
        LET name == IF env.STT_PROVIDER \notin {Undefined, ""} THEN env.STT_PROVIDER
                    ELSE IF env.STT_API_KEY \notin {Undefined, ""} THEN "deepgram"
                    ELSE "openai"
        IN  /\ sttCreated.name = name
            /\ sttCreated.model =
                  IF env.STT_MODEL \notin {Undefined, ""} THEN env.STT_MODEL
                  ELSE IF name = "deepgram" THEN "nova-2" ELSE "gpt-4o-transcribe"

\* Deepgram was selected by the presence of STT_API_KEY alone and got its
\* default model.
C18_Witness ==
    /\ sttCreated.state = "created" /\ sttCreated.name = "deepgram"
    /\ sttCreated.model = "nova-2"
    /\ env.STT_PROVIDER = Undefined /\ env.STT_API_KEY = "sk-stt" /\ env.STT_MODEL = Undefined

\* C19: for a WAV response whose data chunk does not start at byte 44,
\* synthesize returns exactly the bytes of the data chunk.
C19_DataChunkLocated ==
    /\ ttsResult.state = "returned"
    /\ ttsResponse.format = "wav" /\ ttsResponse.dataOffset > 44
    => ttsResult.audio = ttsResponse.payload

\* C20: synthesize fails, and returns no audio, when the WAV header of the
\* response declares a bits-per-sample value other than 16.
C20_RejectsOtherBitDepths ==
    ttsResponse.format = "wav" /\ ttsResponse.bits # 16 => ttsResult.state = "threw"

\* synthesize(text) is called and returns.
SynthesizeReturns(resp) ==
    resp.format = RequestedFormat /\ Synthesize(resp) /\ ttsResult'.state = "returned"

\* C21: after synthesize received a WAV response the provider reports the
\* sample rate of that WAV header; after a raw-PCM response the reported
\* sample rate is unchanged.
C21_SampleRateFollowsHeader ==
    [][\A resp \in PcmResponses \cup WavResponses :
          SynthesizeReturns(resp)
          => ttsSampleRate' = IF resp.format = "wav" THEN resp.rate ELSE ttsSampleRate]_vars

\* The value of CALLME_TTS_SAMPLE_RATE as a number.
ParseRate(v) == IF v = "8000" THEN 8000 ELSE 0

\* C22: the TTS provider created at startup reports the configured
\* TTS_SAMPLE_RATE when it is set, and 24000 when it is not.
C22_StartupSampleRate ==
    ttsClient =>
        ttsSampleRate = IF Truthy(env.TTS_SAMPLE_RATE) THEN ParseRate(env.TTS_SAMPLE_RATE)
                        ELSE 24000

\* C23: once the provider is created, no operation changes its name or its
\* sample rate.
C23_ProviderImmutable ==
    [][ttsClient => ttsName' = ttsName /\ ttsSampleRate' = ttsSampleRate]_vars

\* C24: startup ends with exit code 1, before a CallManager is created and
\* before the server listens, whenever PUBLIC_URL is unset or loading the
\* server configuration fails; nothing is served with an invalid
\* configuration.
C24_InvalidConfigAborts ==
    LET invalid == ~Truthy(mainEnv.PUBLIC_URL) \/ LoadServerConfigThrows
    IN  /\ callManager \/ listening => ~invalid
        /\ invalid /\ mainPc \notin {"start", "load"} => mainPc = "exited" /\ exitCode = 1

C24_Witness ==
    /\ Truthy(mainEnv.PUBLIC_URL) /\ LoadServerConfigThrows
    /\ mainPc = "exited" /\ exitCode = 1

\* The session was connected, lost its upstream and has not been closed.
Outage == Established /\ ~connected /\ ~closed

\* C25: after an unexpected upstream close on a session that has not been
\* closed, the session eventually is connected again or has used its 5
\* reconnect attempts (or is closed by its owner).
C25_ReconnectsOrExhausts ==
    [](Outage => <>(connected \/ closed \/ reconnectAttempts >= maxReconnectAttempts))

InterimEvents == {e \in ResultsEvents : e.alt /\ e.transcript # NoText /\ ~e.is_final}

\* C27: an interim Results event changes neither the accumulator nor the
\* waiter; it only notifies the partial subscriber with the accumulated text
\* followed by the interim text.
C27_InterimOnlyNotifies ==
    [][\A e \in InterimEvents :
          MessageStep(e)
          => /\ UNCHANGED <<pendingTranscript, onTranscriptCallback, waiters, delivered>>
             /\ lastPartial' = IF onPartialCallback
                                THEN Trim(pendingTranscript \o e.transcript)
                                ELSE lastPartial]_vars

\* An interim result was notified on top of an accumulated segment while a
\* waiter was armed.
C27_Witness ==
    /\ onPartialCallback /\ onTranscriptCallback # 0
    /\ pendingTranscript = <<"a", " ">>
    /\ lastPartial = <<"a", " ", "b">>

\* C28: once connect() has rejected, the session stays not connected: it
\* makes no further connection attempt, starts no keepalive, and
\* isConnected() stays false.
C28_RejectedConnectStaysDown ==
    promise # <<>> /\ promise[1] = "rejected"
        => ~isConnected /\ backoff = {} /\ intervals = {} /\ Len(sock) = 1

\* C29: an unexpected close of a connected session schedules reconnect
\* attempt 1 with the base delay of 1 s, and an open resets the attempt
\* counter to 0, so that every outage starts at attempt 1.
C29_OutageStartsAtAttemptOne ==
    [][\A k \in Sockets :
          /\ (WsClose(k) \/ WsError(k)) /\ connected /\ ~closed
             => /\ reconnectAttempts' = 1
                /\ backoff' = backoff \cup {[attempt |-> 1, delay |-> 1000]}
          /\ WsOpen(k) => reconnectAttempts' = 0]_vars

\* A later outage: the session reconnected at least once and closed again.
C29_Witness ==
    /\ Len(sock) >= 3 /\ ~connected /\ ~closed /\ sinceOpen = 0
    /\ backoff = {[attempt |-> 1, delay |-> 1000]}

\* The transport of connection c is registered.
Connected(c) == \E i \in 1..Len(activeTransports) : activeTransports[i].transport = c

\* C30: a POST to /messages with the session id announced to a connected
\* client is handled by that client's own transport.
C30_PostReachesOwnTransport ==
    [][\A c \in 1..sseCount :
          Connected(c) /\ PostMessages(AnnouncedId(c)) => lastPost'.handledBy = c]_vars

\* C31: when validateProviderConfig returned no errors for the
\* configuration, creating the TTS provider and the STT provider from it
\* does not fail: each is initialized with a non-empty key, whichever STT
\* provider is chosen.
C31_ValidConfigCreatesProviders ==
    errors # NotValidated /\ errors.list = <<>>
        => /\ ttsInit # "none" => ttsInit = "created" /\ ttsClient
           /\ sttCreated # NotCreated =>
                 sttCreated.state = "created" /\ Truthy(sttCreated.apiKey)

\* Both providers were created from a valid configuration whose only key is
\* the OpenAI key, with deepgram chosen.
C31_Witness ==
    /\ errors # NotValidated /\ errors.list = <<>>
    /\ ~Truthy(config.sttApiKey) /\ ~Truthy(config.ttsApiKey)
    /\ ttsInit = "created"
    /\ sttCreated # NotCreated /\ sttCreated.name = "deepgram" /\ sttCreated.state = "created"

\* C32: once completeCall has run, the call ends as completed: nothing that
\* happens during the 2 s before the result is delivered turns the outcome
\* into a failure.
C32_CompletionIsFinal ==
    [][isComplete /\ callResult = "pending" => callResult' \in {"pending", "completed"}]_vars

\* C33: a request to /mcp is handed to a transport only if it names a
\* registered Streamable-HTTP session or is a POST of an initialize request,
\* which creates a session; every other request to /mcp is answered with 400
\* and creates no session; an SSE session id is never accepted on /mcp, nor
\* a Streamable-HTTP session id on /messages.
C33_McpRoutesOnlyValidSessions ==
    /\ lastReq.path = "/mcp" =>
          LET valid == lastReq.named.kind = "http"
              init == lastReq.method = "POST" /\ lastReq.body = "initialize"
          IN  /\ lastReq.handledBy.kind # "sse"
              /\ lastReq.handledBy # NoTransport =>
                    \/ valid /\ lastReq.handledBy = lastReq.named
                    \/ init /\ lastReq.created
              /\ ~valid /\ ~init => lastReq.status = 400 /\ ~lastReq.created
    /\ lastReq.path = "/messages" => lastReq.handledBy.kind # "http"

\* A request was handed to a transport in this step.
SseRouted == \E sid \in SessionIds : PostMessages(sid) /\ lastPost'.handledBy # 0
HttpRouted ==
    /\ \/ \E method \in Methods, sid \in HttpSessionIds, body \in Bodies, connects \in BOOLEAN :
             McpRequest(method, sid, body, connects)
       \/ \E sid \in HttpSessionIds : HttpMessages(sid)
    /\ lastReq'.handledBy # NoTransport

Verifies(signedWith) ==
    stripe /\ Truthy(stripeConfig.webhookSecret) /\ signedWith = stripeConfig.webhookSecret

\* C35: a handleWebhook call whose payload does not verify against the
\* configured webhook secret (Stripe uninitialized, no secret, or another
\* signature) throws and leaves every user record unchanged.
C35_UnverifiedWebhookChangesNothing ==
    [][\A event \in WebhookEvents, signedWith \in {"", "whsec_1", "whsec_2"} :
          HandleWebhook(event, signedWith) /\ ~Verifies(signedWith)
              => users' = users /\ webhook'.outcome = "threw"]_vars

\* A webhook signed with another secret was refused although its event names
\* a user's subscription.
C35_Witness ==
    /\ webhook.outcome = "threw"
    /\ stripe /\ Truthy(stripeConfig.webhookSecret)
    /\ webhook.signedWith = "whsec_2"
    /\ webhook.type = "customer.subscription.deleted"
    /\ GetUserByStripeSubscriptionId(webhook.subscription) # NoUser
    /\ users[GetUserByStripeSubscriptionId(webhook.subscription)].subscription_status = "active"

\* C36: at most one Stripe customer is ever created for a user.
C36_OneCustomerPerUser ==
    \A u \in Users : Cardinality({k \in 1..Len(customers) : customers[k] = u}) <= 1


\* C37: for non-negative minutesUsed and any plan, getMinutesRemaining is
\* the larger of 0 and monthlyMinutes - minutesUsed (NaN for a NaN plan) and
\* is never negative, and hasMinutesRemaining is true exactly when
\* getMinutesRemaining is greater than 0.
C37_MinutesRemaining ==
    minutes.asked =>
        LET m == minutes.monthlyMinutes
            r == minutes.remaining
        IN  /\ m.nan => r.nan
            /\ ~m.nan => /\ ~r.nan
                         /\ r.v >= 0 /\ r.v >= m.v - minutes.minutesUsed
                         /\ r.v \in {0, m.v - minutes.minutesUsed}
            /\ ~(~r.nan /\ r.v < 0)
            /\ minutes.has <=> (~r.nan /\ r.v > 0)

\* The minutes used equal the loaded plan's minutes: none remain.
C37_Witness ==
    /\ minutes.asked /\ planLoaded
    /\ minutes.monthlyMinutes = Num(3)
    /\ minutes.minutesUsed = 3
    /\ ~minutes.has

====
